---- MODULE Spec2Model ----
(***************************************************************************)
(* HexDiff: the single-file delta engine (pkg/diff), the patch container   *)
(* (pkg/patch: format, serializer, generator, applier), the optimizer and  *)
(* the directory driver's worker (pkg/diff/walk.go).                       *)
(*                                                                         *)
(* Files are sequences of bytes.  A Go slice is a reference                *)
(* [arr, len, cap] into a heap of backing arrays, so that two slices that  *)
(* share a backing array see each other's writes.                          *)
(***************************************************************************)
EXTENDS Integers, Sequences, FiniteSets, TLC

VARIABLES
    mode,       \* which driver is running: "pipe", "opt", "load", "apply", "dir"
    pc,         \* position of the driver
    src,        \* bytes of the source (old) file
    tgt,        \* bytes of the target (new) file
    cfg,        \* diff.DiffConfig of the engine (the OptimizerConfig in mode "opt")
    heap,       \* backing arrays of the byte slices held by delta
    delta,      \* diff.Delta returned by GenerateDelta (or the optimizer's input)
    clock,      \* time.Now().Unix()
    patches,    \* the patch files written so far (one per GeneratePatch run)
    out,        \* outcome of the last apply: [err, data]
    hdr,        \* raw wire header handed to PatchHeader.Unmarshal
    fs,         \* file system seen by the applier: path -> bytes or NoFile
    ap,         \* the applier call in progress
    optimized,  \* Optimizer.OptimizeDelta: its argument after the call, its result
    dir,        \* ProcessDirDiff: goroutines, channels, wait group
    tree        \* the directory-level calls: the two trees, the walk, the tree-patch

vars == <<mode, pc, src, tgt, cfg, heap, delta, clock, patches, out, hdr, fs, ap,
          optimized, dir, tree>>

----------------------------------------------------------------------------
(* Bounds of the model *)

\* most whole blocks of a source file
MaxSrcBlocks == 1
\* most whole blocks of a target file
MaxTgtBlocks == 2
\* number of GeneratePatch runs on the same pair of files
MaxRuns == 2
\* the clock advances at most this many seconds
MaxClock == 1

\* pkg/diff/types.go: the block sizes DiffConfig.Validate accepts start here
MinBlockSize == 64
DefaultBlockSize == 4096
\* block sizes of the engine configurations explored
BlockSizes == {MinBlockSize}

\* Files are made of whole blocks of one byte value each, followed by a
\* short tail
Run(b, n) == [i \in 1..n |-> b]
FullBlocks == {Run(0, MinBlockSize), Run(1, MinBlockSize)}
Tails == {<<>>, <<0>>, <<1>>}
\* a block of MinBlockSize bytes whose CRC-32 is 0; without its leading zero
\* byte it is one byte short of a block and has the same FastHash
ZeroCrcBlock == Run(0, MinBlockSize - 4) \o <<149, 131, 203, 105>>

None == "none"
\* a path holds no file, or a file with its content
NoFile == [exists |-> FALSE, data |-> <<>>]
File(content) == [exists |-> TRUE, data |-> content]

Min(a, b) == IF a < b THEN a ELSE b
Max(a, b) == IF a > b THEN a ELSE b

RECURSIVE SeqsUpTo(_, _)
SeqsUpTo(S, n) ==
    IF n = 0 THEN {<<>>}
    ELSE LET shorter == SeqsUpTo(S, n - 1)
         IN  shorter \cup {Append(s, b) : s \in {t \in shorter : Len(t) = n - 1}, b \in S}

Slice(s, from, to) == IF to < from THEN <<>> ELSE SubSeq(s, from, to)


----------------------------------------------------------------------------
(* pkg/hash: the polynomial hash *)

RollingHashBase == 257
RollingHashMod == 1000000007

\* (h * RollingHashBase) % RollingHashMod for h < RollingHashMod, computed
\* without leaving 31 bits: 257 = 2^8 + 1
RECURSIVE DoubleMod(_, _)
DoubleMod(h, k) == IF k = 0 THEN h ELSE DoubleMod((2 * h) % RollingHashMod, k - 1)

MulBaseMod(h) ==
    LET times256 == DoubleMod(h, 8)
        times257 == (times256 + h) % RollingHashMod
    IN  IF RollingHashBase = 257 THEN times257 ELSE (h * RollingHashBase) % RollingHashMod

RECURSIVE FastHashFrom(_, _)
FastHashFrom(hash, data) ==
    IF data = <<>> \/ hash < 0 THEN hash
    ELSE FastHashFrom((MulBaseMod(hash) + Head(data)) % RollingHashMod, Tail(data))

FastHashOf(data) == FastHashFrom(0, data)

----------------------------------------------------------------------------
(* hash/crc32.ChecksumIEEE: reflected CRC-32, polynomial 0xEDB88320.  A     *)
(* 32-bit register is the pair <<hi, lo>> of its 16-bit halves.            *)

RECURSIVE Xor(_, _)
Xor(a, b) ==
    IF a = 0 THEN b
    ELSE IF b = 0 THEN a
    ELSE (((a % 2) + (b % 2)) % 2) + 2 * Xor(a \div 2, b \div 2)

\* 0xEDB88320 as <<0xEDB8, 0x8320>>
CrcPoly == <<60856, 33568>>

CrcShift(r) ==
    LET hi == r[1]
        lo == r[2]
        shifted == <<hi \div 2, (lo \div 2) + (hi % 2) * 32768>>
    IN  IF lo % 2 = 1
        THEN <<Xor(shifted[1], CrcPoly[1]), Xor(shifted[2], CrcPoly[2])>>
        ELSE shifted

RECURSIVE CrcShifts(_, _)
CrcShifts(r, k) == IF k = 0 THEN r ELSE CrcShifts(CrcShift(r), k - 1)

\* the register is a pair of naturals at every byte (the test also makes the
\* evaluation proceed byte by byte)
RECURSIVE CrcUpdate(_, _)
CrcUpdate(r, data) ==
    IF data = <<>> \/ r[1] < 0 \/ r[2] < 0 THEN r
    ELSE CrcUpdate(CrcShifts(<<r[1], Xor(r[2], Head(data))>>, 8), Tail(data))

Crc32(data) ==
    LET r == CrcUpdate(<<65535, 65535>>, data)
    IN  <<65535 - r[1], 65535 - r[2]>>

\* the checksums of the blocks the model's files are cut into, computed once
BlockVals == FullBlocks \cup Tails \cup {ZeroCrcBlock, Tail(ZeroCrcBlock)}
CrcTable == [data \in BlockVals |-> Crc32(data)]

ChecksumIEEE(data) == IF data \in BlockVals THEN CrcTable[data] ELSE Crc32(data)

HashTable == [data \in BlockVals |-> FastHashOf(data)]

FastHash(data) == IF data \in BlockVals THEN HashTable[data] ELSE FastHashOf(data)

\* the zero value of a uint32 checksum
ZeroCrc == <<0, 0>>

----------------------------------------------------------------------------
(* crypto/sha256: a digest is determined by the bytes written to the       *)
(* hasher; the all-zero [32]byte is the digest of no message.              *)

ZeroChecksum == [sha |-> "zero", of |-> <<>>]
Sha256Sum(written) == [sha |-> "sha256", of |-> written]

----------------------------------------------------------------------------
(* Go byte slices over a heap of backing arrays *)

NilSlice == [arr |-> 0, len |-> 0, cap |-> 0]

SliceBytes(h, s) == IF s.len = 0 THEN <<>> ELSE SubSeq(h[s.arr], 1, s.len)

RECURSIVE GrowLarge(_, _)
GrowLarge(newcap, newLen) ==
    IF newcap >= newLen THEN newcap
    ELSE GrowLarge(newcap + ((newcap + 768) \div 4), newLen)

\* capacity of the array append allocates when newLen does not fit oldCap
GrowCap(oldCap, newLen) ==
    IF newLen > 2 * oldCap THEN newLen
    ELSE IF oldCap < 256 THEN 2 * oldCap
    ELSE GrowLarge(oldCap, newLen)

\* s = append(s, data...): in place when the capacity suffices, otherwise
\* into a fresh array that receives a copy of s
AppendBytes(h, s, data) ==
    LET n == Len(data)
        newLen == s.len + n
    IN  IF newLen <= s.cap
        THEN [heap  |-> [h EXCEPT ![s.arr] =
                            [i \in 1..s.cap |->
                                IF i > s.len /\ i <= newLen THEN data[i - s.len] ELSE @[i]]],
              slice |-> [s EXCEPT !.len = newLen]]
        ELSE LET newcap == GrowCap(s.cap, newLen)
                 old == SliceBytes(h, s)
                 fresh == [i \in 1..newcap |->
                              IF i <= s.len THEN old[i]
                              ELSE IF i <= newLen THEN data[i - s.len]
                              ELSE 0]
             IN  [heap  |-> Append(h, fresh),
                  slice |-> [arr |-> Len(h) + 1, len |-> newLen, cap |-> newcap]]

----------------------------------------------------------------------------
(* pkg/diff/types.go *)

OpCopy == 0
OpInsert == 1
OpDelete == 2

NewSignature(blockSize, fileSize) ==
    [BlockSize |-> blockSize, Blocks |-> <<>>, FileSize |-> fileSize,
     Checksum |-> ZeroChecksum]

\* s.Blocks[block.Hash] = append(s.Blocks[block.Hash], block); the map is the
\* function from the hashes present to their buckets
AddBlock(sig, block) ==
    LET had == block.Hash \in DOMAIN sig.Blocks
        bucket == IF had THEN sig.Blocks[block.Hash] ELSE <<>>
    IN  [sig EXCEPT !.Blocks =
            [hh \in DOMAIN sig.Blocks \cup {block.Hash} |->
                IF hh = block.Hash THEN Append(bucket, block) ELSE sig.Blocks[hh]]]

\* a *Block is the empty tuple (nil) or the one-tuple of the block pointed to
NilBlock == <<>>

FindBlock(sig, hash, data) ==
    IF hash \notin DOMAIN sig.Blocks THEN NilBlock
    ELSE LET blocks == sig.Blocks[hash]
             checksum == ChecksumIEEE(data)
             hits == {i \in 1..Len(blocks) : blocks[i].Checksum = checksum}
         IN  IF hits = {} THEN NilBlock
             ELSE <<blocks[CHOOSE i \in hits : \A j \in hits : i <= j]>>

NewDelta(sourceSize, targetSize) ==
    [Operations |-> <<>>, SourceSize |-> sourceSize, TargetSize |-> targetSize,
     Checksum |-> ZeroChecksum]

AddOperation(d, op) == [d EXCEPT !.Operations = Append(@, op)]

----------------------------------------------------------------------------
(* pkg/diff/engine.go *)

\* the successive results of file.Read(buffer) with len(buffer) = blockSize
RECURSIVE ReadBlocks(_, _)
ReadBlocks(data, blockSize) ==
    IF data = <<>> THEN <<>>
    ELSE LET n == Min(blockSize, Len(data))
         IN  <<SubSeq(data, 1, n)>> \o ReadBlocks(Slice(data, n + 1, Len(data)), blockSize)

RECURSIVE SignatureLoop(_, _, _, _)
SignatureLoop(sig, blocks, offset, c) ==
    IF blocks = <<>> THEN sig
    ELSE SignatureLoop(AddBlock(sig, [Offset   |-> offset,
                                      Size     |-> Len(Head(blocks)),
                                      Hash     |-> FastHash(Head(blocks)),
                                      Checksum |-> IF c.EnableCRC32
                                                   THEN ChecksumIEEE(Head(blocks))
                                                   ELSE ZeroCrc]),
                       Tail(blocks), offset + Len(Head(blocks)), c)

GenerateSignature(data, c) ==
    [SignatureLoop(NewSignature(c.BlockSize, Len(data)),
                   ReadBlocks(data, c.BlockSize), 0, c)
        EXCEPT !.Checksum = IF c.EnableSHA256 THEN Sha256Sum(data) ELSE ZeroChecksum]

\* the scan state: delta, the heap, the unmatched buffer and where it starts,
\* the bytes written to the file hasher, and whether the block matched
\* the pending unmatched bytes become an INSERT
flushUnmatched(st) ==
    IF st.unmatchedData.len > 0
    THEN AddOperation(st.delta,
             [Type |-> OpInsert, Offset |-> st.unmatchedStart,
              Size |-> st.unmatchedData.len,
              Data |-> st.unmatchedData, SrcOffset |-> 0])
    ELSE st.delta

\* processBlock once signature.FindBlock has answered with found
processFound(st, offset, found) ==
    IF found # NilBlock
    THEN [st EXCEPT
            !.delta = AddOperation(flushUnmatched(st),
                          [Type |-> OpCopy, Offset |-> offset,
                           Size |-> found[1].Size,
                           Data |-> NilSlice,
                           SrcOffset |-> found[1].Offset]),
            \* unmatchedData[:0] keeps the backing array
            !.unmatchedData = [@ EXCEPT !.len = 0],
            !.unmatchedStart = offset + found[1].Size,
            !.matched = TRUE]
    ELSE [st EXCEPT
            !.unmatchedStart = IF st.unmatchedData.len = 0 THEN offset ELSE @,
            !.matched = FALSE]

processBlock(st, blockData, offset, sig) ==
    processFound(st, offset, FindBlock(sig, FastHash(blockData), blockData))

\* a mutant: the hasher is fed only the blocks that fill the buffer
HasherWrite_FullBlocksOnly(written, blockData, c) ==
    IF c.EnableSHA256 /\ Len(blockData) = c.BlockSize THEN written \o blockData
    ELSE written

\* if fileHasher != nil { fileHasher.Write(blockData) }
HasherWrite(written, blockData, c) ==
    IF c.EnableSHA256 THEN written \o blockData ELSE written

\* unmatchedData = append(unmatchedData, blockData...), grown being what
\* append returned
keepUnmatched(after, grown) ==
    [after EXCEPT !.heap = grown.heap, !.unmatchedData = grown.slice]

\* if !matched { unmatchedData = append(unmatchedData, blockData...) }
afterBlock(after, blockData) ==
    IF after.matched THEN after
    ELSE keepUnmatched(after, AppendBytes(after.heap, after.unmatchedData, blockData))

\* one turn of the read loop per block read
RECURSIVE ScanLoop(_, _, _, _, _)
ScanLoop(st, blocks, fileOffset, sig, c) ==
    IF blocks = <<>> THEN st
    ELSE ScanLoop(afterBlock(processBlock(
                                 [st EXCEPT !.written = HasherWrite(@, Head(blocks), c)],
                                 Head(blocks), fileOffset, sig),
                             Head(blocks)),
                  Tail(blocks), fileOffset + Len(Head(blocks)), sig, c)

\* after the read loop: the last INSERT and delta.Checksum
finishDelta(st, c) ==
    [delta |-> [flushUnmatched(st) EXCEPT !.Checksum =
                   IF c.EnableSHA256 THEN Sha256Sum(st.written) ELSE @],
     heap  |-> st.heap]

generateDeltaWithRollingHash(newData, sig, d, c) ==
    finishDelta(ScanLoop([delta |-> d, heap |-> <<>>, unmatchedData |-> NilSlice,
                          unmatchedStart |-> 0, written |-> <<>>, matched |-> FALSE],
                         ReadBlocks(newData, c.BlockSize), 0, sig, c),
                c)

\* GenerateDelta once GenerateSignature has returned signature
deltaFromSignature(signature, newData, c) ==
    generateDeltaWithRollingHash(newData, signature,
        NewDelta(signature.FileSize, Len(newData)), c)

\* returns the Delta and the arrays its INSERT data lives in
GenerateDelta(oldData, newData, c) ==
    deltaFromSignature(GenerateSignature(oldData, c), newData, c)

----------------------------------------------------------------------------
(* encoding/binary.LittleEndian, on the integers the model can hold        *)
(* (-2^31 <= n < 2^31): a conversion between int64/int and uint64/uint32   *)
(* is the two's complement reading of the same bytes.                      *)

PutUint32(n) ==
    <<n % 256, (n \div 256) % 256, (n \div 65536) % 256, (n \div 16777216) % 256>>

PutUint64(n) ==
    LET ext == IF n < 0 THEN 255 ELSE 0
    IN  PutUint32(n) \o <<ext, ext, ext, ext>>

\* a uint32 of 2^31 or more is held as its two's complement reading
Uint32(b) ==
    b[1] + 256 * b[2] + 65536 * b[3] + 16777216 * (IF b[4] >= 128 THEN b[4] - 256 ELSE b[4])

\* a + b in uint32 arithmetic: the sum modulo 2^32
Uint32Add(a, b) ==
    IF a >= 0 /\ b >= 0
    THEN IF a > 2147483647 - b
         THEN (a - 2147483647 - 1) + (b - 2147483647 - 1)
         ELSE a + b
    ELSE IF a < 0 /\ b < 0
    THEN IF (a + 2147483647 + 1) > 2147483647 - (b + 2147483647 + 1)
         THEN a + b
         ELSE (a + 2147483647 + 1) + (b + 2147483647 + 1)
    ELSE a + b

\* a > b as uint32 values
Uint32Greater(a, b) == IF (a < 0) = (b < 0) THEN a > b ELSE a < 0

\* int64(binary.LittleEndian.Uint64(b)), for bytes whose value is in range
Int64(b) ==
    IF b[8] >= 128
    THEN b[1] + 256 * b[2] + 65536 * b[3] + 16777216 * (b[4] - 256)
    ELSE Uint32(b)

----------------------------------------------------------------------------
(* pkg/patch/format.go *)

MagicNumber == 1212504132
Version == 1
HeaderSize == 104
OperationSize == 26

CompressionNone == 0
CompressionGzip == 1
CompressionLZ4 == 2

NewPatchHeader(now) ==
    [Magic |-> MagicNumber, Version |-> Version, Compression |-> CompressionNone,
     Reserved |-> 0, Timestamp |-> now, SourceSize |-> 0, TargetSize |-> 0,
     SourceChecksum |-> ZeroChecksum, TargetChecksum |-> ZeroChecksum,
     OperationCount |-> 0, DataOffset |-> 0]

\* nil, or the error's text
Validate(h) ==
    IF h.Magic # MagicNumber THEN "invalid magic number"
    ELSE IF h.Version # Version THEN "unsupported version"
    ELSE IF h.SourceSize < 0 \/ h.TargetSize < 0 THEN "invalid file size"
    ELSE None

\* the 104 header bytes, by field; the two digests stay abstract
\* a mutant: the timestamp is also written over the source size field
MarshalHeader_TimestampAt16(h) ==
    [Magic |-> h.Magic, Version |-> h.Version, Compression |-> h.Compression,
     Reserved |-> h.Reserved, Timestamp |-> PutUint64(h.Timestamp),
     SourceSize |-> PutUint64(h.Timestamp), TargetSize |-> PutUint64(h.TargetSize),
     SourceChecksum |-> h.SourceChecksum, TargetChecksum |-> h.TargetChecksum,
     OperationCount |-> h.OperationCount, DataOffset |-> h.DataOffset]

MarshalHeader(h) ==
    [Magic |-> h.Magic, Version |-> h.Version, Compression |-> h.Compression,
     Reserved |-> h.Reserved, Timestamp |-> PutUint64(h.Timestamp),
     SourceSize |-> PutUint64(h.SourceSize), TargetSize |-> PutUint64(h.TargetSize),
     SourceChecksum |-> h.SourceChecksum, TargetChecksum |-> h.TargetChecksum,
     OperationCount |-> h.OperationCount, DataOffset |-> h.DataOffset]

UnmarshalHeader(w) ==
    LET h == [Magic |-> w.Magic, Version |-> w.Version, Compression |-> w.Compression,
              Reserved |-> w.Reserved, Timestamp |-> Int64(w.Timestamp),
              SourceSize |-> Int64(w.SourceSize), TargetSize |-> Int64(w.TargetSize),
              SourceChecksum |-> w.SourceChecksum, TargetChecksum |-> w.TargetChecksum,
              OperationCount |-> w.OperationCount, DataOffset |-> w.DataOffset]
    IN  [err |-> Validate(h), header |-> h]

MarshalOp(op) ==
    <<op.Type, op.Reserved>> \o PutUint32(op.Size) \o PutUint64(op.Offset)
        \o PutUint64(op.SrcOffset) \o PutUint32(op.DataOffset)

UnmarshalOp(b) ==
    [Type |-> b[1], Reserved |-> b[2], Size |-> Uint32(SubSeq(b, 3, 6)),
     Offset |-> Uint32(SubSeq(b, 7, 10)), SrcOffset |-> Uint32(SubSeq(b, 15, 18)),
     DataOffset |-> Uint32(SubSeq(b, 23, 26))]

UpdateHeader(pf) ==
    [pf EXCEPT !.Header.OperationCount = Len(pf.Operations),
               !.Header.DataOffset = HeaderSize + Len(pf.Operations) * OperationSize]

----------------------------------------------------------------------------
(* compress/gzip as a framing of the literal blob: a stream is never empty *)
(* and a reader rejects bytes that do not start with the gzip magic        *)

GzipMagic == <<31, 139>>
Gzip(data) == GzipMagic \o data
IsGzip(b) == Len(b) >= 2 /\ SubSeq(b, 1, 2) = GzipMagic
Gunzip(b) == Slice(b, 3, Len(b))

----------------------------------------------------------------------------
(* pkg/patch/serializer.go *)

RECURSIVE ConvertOps(_, _, _)
ConvertOps(pf, ops, h) ==
    IF ops = <<>> THEN pf
    ELSE LET op == Head(ops)
             patchOp == [Type |-> op.Type, Reserved |-> 0, Size |-> op.Size,
                         Offset |-> op.Offset,
                         SrcOffset |-> IF op.Type = OpCopy THEN op.SrcOffset ELSE 0,
                         \* AddInsertData: the offset is the blob's length so far
                         DataOffset |-> IF op.Type = OpInsert THEN Len(pf.Data) ELSE 0]
             added == [pf EXCEPT
                         !.Operations = Append(@, patchOp),
                         !.Data = IF op.Type = OpInsert
                                  THEN @ \o SliceBytes(h, op.Data) ELSE @]
         IN  ConvertOps(IF op.Size = 0 THEN pf ELSE added, Tail(ops), h)

RECURSIVE MarshalOps(_)
MarshalOps(ops) == IF ops = <<>> THEN <<>> ELSE MarshalOp(Head(ops)) \o MarshalOps(Tail(ops))

\* the bytes of the patch file: the header, then the operation table and the
\* blob; an unsupported compression fails after the table was written
writePatchFile(pf, compression) ==
    LET table == MarshalOps(pf.Operations)
    IN  IF compression = CompressionNone
        THEN [err |-> None,
              file |-> [Header |-> MarshalHeader(pf.Header), Rest |-> table \o pf.Data]]
        ELSE IF compression = CompressionGzip
        THEN [err |-> None,
              file |-> [Header |-> MarshalHeader(pf.Header), Rest |-> table \o Gzip(pf.Data)]]
        ELSE [err |-> "unsupported compression type",
              file |-> [Header |-> MarshalHeader(pf.Header), Rest |-> table]]

SerializeDelta(d, h, sourceChecksum, compression, now) ==
    LET header == [NewPatchHeader(now) EXCEPT
                      !.Compression = compression,
                      !.SourceSize = d.SourceSize,
                      !.TargetSize = d.TargetSize,
                      !.SourceChecksum = sourceChecksum,
                      !.TargetChecksum = d.Checksum]
        pf0 == [Header |-> header, Operations |-> <<>>, Data |-> <<>>]
        pf == UpdateHeader(ConvertOps(pf0, d.Operations, h))
    IN  writePatchFile(pf, compression)

decompressData(compressedData, compression) ==
    IF compression = CompressionNone THEN [err |-> None, data |-> compressedData]
    ELSE IF compression = CompressionGzip
    THEN IF IsGzip(compressedData)
         THEN [err |-> None, data |-> Gunzip(compressedData)]
         ELSE [err |-> "create gzip reader", data |-> <<>>]
    ELSE [err |-> "unsupported compression type", data |-> <<>>]

RECURSIVE ReadOps(_, _)
ReadOps(rest, count) ==
    IF count = 0 THEN <<>>
    ELSE <<UnmarshalOp(SubSeq(rest, 1, OperationSize))>>
            \o ReadOps(Slice(rest, OperationSize + 1, Len(rest)), count - 1)

\* DeserializePatch and DeserializeFromData read the same bytes the same way
DeserializePatch(file) ==
    LET parsed == UnmarshalHeader(file.Header)
        header == parsed.header
        need == header.OperationCount * OperationSize
        remainingData == Slice(file.Rest, need + 1, Len(file.Rest))
        data == IF Len(remainingData) > 0
                THEN decompressData(remainingData, header.Compression)
                ELSE [err |-> None, data |-> <<>>]
        bad == [Header |-> header, Operations |-> <<>>, Data |-> <<>>]
    IN  IF parsed.err # None THEN [err |-> "parse header", patchFile |-> bad]
        ELSE IF Len(file.Rest) < need THEN [err |-> "read operation", patchFile |-> bad]
        ELSE IF data.err # None THEN [err |-> "decompress data", patchFile |-> bad]
        ELSE [err |-> None,
              patchFile |-> [Header |-> header,
                             Operations |-> ReadOps(file.Rest, header.OperationCount),
                             Data |-> data.data]]

----------------------------------------------------------------------------
(* pkg/patch/applier.go *)

\* file.Seek(off, 0) followed by file.Write(bytes): a write past the end
\* fills the gap with zero bytes, an empty write changes nothing
WriteAt(file, off, bytes) ==
    IF bytes = <<>> THEN file
    ELSE LET newLen == Max(Len(file), off + Len(bytes))
         IN  [i \in 1..newLen |->
                 IF i > off /\ i <= off + Len(bytes) THEN bytes[i - off]
                 ELSE IF i <= Len(file) THEN file[i]
                 ELSE 0]

\* reads up to op.Size bytes from op.SrcOffset; a short source ends the copy
\* without an error
applyCopyOperation(sourceData, target, op) ==
    LET upto == Min(op.SrcOffset + op.Size, Len(sourceData))
    IN  [err |-> None,
         data |-> WriteAt(target, op.Offset, Slice(sourceData, op.SrcOffset + 1, upto))]

\* the bounds check adds in uint32; patchData[low:high] panics unless
\* low <= high <= cap(patchData)
applyInsertOperation(target, op, patchData) ==
    IF Uint32Greater(Uint32Add(op.DataOffset, op.Size), Len(patchData))
    THEN [err |-> "insert data out of bounds", data |-> target]
    ELSE IF Uint32Greater(op.DataOffset, Uint32Add(op.DataOffset, op.Size))
    THEN [err |-> "panic: slice bounds out of range", data |-> target]
    ELSE [err |-> None,
          data |-> WriteAt(target, op.Offset,
                       Slice(patchData, op.DataOffset + 1, op.DataOffset + op.Size))]

applyDeleteOperation(target, op) == [err |-> None, data |-> target]

applyOperation(sourceData, target, op, patchData) ==
    IF op.Type = 0 THEN applyCopyOperation(sourceData, target, op)
    ELSE IF op.Type = 1 THEN applyInsertOperation(target, op, patchData)
    ELSE IF op.Type = 2 THEN applyDeleteOperation(target, op)
    ELSE [err |-> "unknown operation type", data |-> target]

RECURSIVE ApplyLoop(_, _, _, _)
ApplyLoop(sourceData, target, ops, patchData) ==
    IF ops = <<>> THEN [err |-> None, data |-> target]
    ELSE LET r == applyOperation(sourceData, target, Head(ops), patchData)
         IN  IF r.err # None THEN [err |-> "apply operation", data |-> r.data]
             ELSE ApplyLoop(sourceData, r.data, Tail(ops), patchData)

\* os.Create(targetFilePath) truncates it; data is what the file holds when
\* the loop ends or fails
applyOperations(sourceFile, patchFile) ==
    IF ~sourceFile.exists THEN [err |-> "open source file", data |-> <<>>]
    ELSE ApplyLoop(sourceFile.data, <<>>, patchFile.Operations, patchFile.Data)

calculateFileChecksum(file) ==
    IF ~file.exists THEN [err |-> "open", sum |-> ZeroChecksum]
    ELSE [err |-> None, sum |-> Sha256Sum(file.data)]

verifySourceFile(file, expectedChecksum) ==
    LET actual == calculateFileChecksum(file)
    IN  IF actual.err # None THEN actual.err
        ELSE IF actual.sum # expectedChecksum THEN "source file checksum mismatch"
        ELSE None

verifyTargetFile(file, expectedChecksum) ==
    LET actual == calculateFileChecksum(file)
    IN  IF actual.err # None THEN actual.err
        ELSE IF actual.sum # expectedChecksum THEN "target file checksum mismatch"
        ELSE None

isZeroChecksum(sum) == sum = ZeroChecksum

\* The paths of one apply: the source, the patch, the target, the temp file
\* os.CreateTemp names (fresh, so it never is one of the others) and the
\* backup at targetFilePath + ".backup".  fault is the file-system call that
\* fails in this run, if any.  step numbers the stage that failed:
\* 1 deserialize, 2 verify source, 3 create temp, 4 apply operations,
\* 5 verify target, 6 backup, 7 rename.

\* a mutant: the operations are written straight to the target path
createTempFile_TargetPath(f) == "target"

\* the path of the new, empty file
createTempFile(f) == "temp"

\* if !isZeroChecksum { verifySourceFile } of ApplyDelta
sourceIsChecked(sourceChecksum) == ~isZeroChecksum(sourceChecksum)

\* a mutant: the return leaves the temp file behind
Failed_KeepsTemp(f, tempFile, text, step) ==
    [fs |-> f, err |-> text, step |-> step]

\* a return after defer os.Remove(tempFile)
Failed(f, tempFile, text, step) ==
    [fs |-> [f EXCEPT ![tempFile] = NoFile], err |-> text, step |-> step]

\* os.Rename(tempFilePath, targetFilePath)
atomicReplace(f, tempFile) ==
    IF tempFile = "target" THEN f
    ELSE [f EXCEPT !.target = f[tempFile], ![tempFile] = NoFile]

\* createBackup and atomicReplace, the last two steps of ApplyPatch
replaceTarget(fault, tempFile, backedUp) ==
    IF fault = "rename" THEN Failed(backedUp, tempFile, "atomic replace", 7)
    ELSE [fs |-> atomicReplace(backedUp, tempFile), err |-> None, step |-> 0]

\* ApplyPatch from the return of applyOperations on: written is the file
\* system with what the operations left in the temp file
finishApplyPatch(conf, fault, pf, tempFile, applyErr, written) ==
    IF applyErr # None
    THEN Failed(written, tempFile, "apply operations", 4)
    ELSE IF conf.VerifyTarget
            /\ verifyTargetFile(written[tempFile], pf.Header.TargetChecksum) # None
    THEN Failed(written, tempFile, "verify target file", 5)
    ELSE IF conf.BackupEnabled /\ written.target.exists /\ fault = "backup"
    THEN Failed([written EXCEPT !.backup = File(<<>>)], tempFile, "create backup", 6)
    ELSE replaceTarget(fault, tempFile,
             IF conf.BackupEnabled /\ written.target.exists
             THEN [written EXCEPT !.backup = written.target]
             ELSE written)

\* the operations run against the temp file
applyToTemp(f, conf, fault, pf, tempFile, applied) ==
    finishApplyPatch(conf, fault, pf, tempFile, applied.err,
                     [f EXCEPT ![tempFile] = File(applied.data)])

\* ApplyPatch once DeserializePatch has returned des
applyLoadedPatch(f, conf, fault, des) ==
    IF des.err # None
    THEN [fs |-> f, err |-> "deserialize patch", step |-> 1]
    ELSE IF verifySourceFile(f.source, des.patchFile.Header.SourceChecksum) # None
    THEN [fs |-> f, err |-> "verify source file", step |-> 2]
    ELSE IF fault = "temp"
    THEN [fs |-> f, err |-> "create temp file", step |-> 3]
    ELSE applyToTemp(f, conf, fault, des.patchFile, createTempFile(f),
                     applyOperations(f.source, des.patchFile))

ApplyPatch(f, conf, fault) ==
    IF ~f.source.exists \/ ~f.patch.exists
    THEN [fs |-> f, err |-> "validate input files", step |-> 1]
    ELSE applyLoadedPatch(f, conf, fault, DeserializePatch(f.patch.data))

\* ApplyDelta from the return of applyOperations on
finishApplyDelta(conf, fault, pf, tempFile, applyErr, written) ==
    IF applyErr # None
    THEN Failed(written, tempFile, "apply operations", 4)
    ELSE IF ~isZeroChecksum(pf.Header.TargetChecksum) /\ conf.VerifyTarget
            /\ verifyTargetFile(written[tempFile], pf.Header.TargetChecksum) # None
    THEN Failed(written, tempFile, "verify target file", 5)
    ELSE IF fault = "rename"
    THEN Failed(written, tempFile, "atomic replace", 7)
    ELSE [fs |-> atomicReplace(written, tempFile), err |-> None, step |-> 0]

applyDeltaToTemp(f, conf, fault, pf, tempFile, applied) ==
    finishApplyDelta(conf, fault, pf, tempFile, applied.err,
                     [f EXCEPT ![tempFile] = File(applied.data)])

\* ApplyDelta once DeserializeFromData has returned des
applyLoadedDelta(f, conf, fault, des) ==
    IF des.err # None
    THEN [fs |-> f, err |-> "deserialize delta", step |-> 1]
    ELSE IF sourceIsChecked(des.patchFile.Header.SourceChecksum)
            /\ verifySourceFile(f.source, des.patchFile.Header.SourceChecksum) # None
    THEN [fs |-> f, err |-> "verify source file", step |-> 2]
    ELSE IF fault = "temp"
    THEN [fs |-> f, err |-> "create temp file", step |-> 3]
    ELSE applyDeltaToTemp(f, conf, fault, des.patchFile, createTempFile(f),
                          applyOperations(f.source, des.patchFile))

ApplyDelta(f, conf, fault) ==
    applyLoadedDelta(f, conf, fault, DeserializePatch(f.patch.data))

----------------------------------------------------------------------------
(* pkg/diff optimizer *)

\* make([]byte, 0, n)
MakeSlice(h, n) ==
    [heap |-> Append(h, [i \in 1..n |-> 0]),
     slice |-> IF n = 0 THEN NilSlice ELSE [arr |-> Len(h) + 1, len |-> 0, cap |-> n]]

RECURSIVE RemoveEmptyOperations(_)
RemoveEmptyOperations(ops) ==
    IF ops = <<>> THEN <<>>
    ELSE IF Head(ops).Size > 0 THEN <<Head(ops)>> \o RemoveEmptyOperations(Tail(ops))
    ELSE RemoveEmptyOperations(Tail(ops))

\* the DELETE at i is followed by a COPY at its offset that is no shorter
RedundantDelete(ops, i) ==
    /\ ops[i].Type = OpDelete
    /\ i + 1 <= Len(ops) /\ ops[i + 1].Type = OpCopy
    /\ ops[i].Offset = ops[i + 1].Offset /\ ops[i].Size <= ops[i + 1].Size

optimizeRedundantDeletes(ops) ==
    LET keep == {i \in 1..Len(ops) : ~RedundantDelete(ops, i)}
        RECURSIVE Kept(_)
        Kept(i) == IF i > Len(ops) THEN <<>>
                   ELSE IF i \in keep THEN <<ops[i]>> \o Kept(i + 1)
                   ELSE Kept(i + 1)
    IN  Kept(1)

\* a mutant: two COPYs are merged whenever their target ranges touch
CopyContinuous_TargetOnly(prevOp, currentOp) ==
    prevOp.Offset + prevOp.Size = currentOp.Offset

\* targetContinuous && sourceContinuous
CopyContinuous(prevOp, currentOp) ==
    /\ prevOp.Offset + prevOp.Size = currentOp.Offset
    /\ prevOp.SrcOffset + prevOp.Size = currentOp.SrcOffset

\* indices count from 1; next is the index of the first operation left out
RECURSIVE MergeCopyLoop(_, _, _)
MergeCopyLoop(operations, mergedOp, i) ==
    IF i <= Len(operations) /\ operations[i].Type = OpCopy
          /\ CopyContinuous(operations[i - 1], operations[i])
    THEN MergeCopyLoop(operations, [mergedOp EXCEPT !.Size = @ + operations[i].Size], i + 1)
    ELSE [op |-> mergedOp, next |-> i]

mergeCopyOperations(operations, startIdx) ==
    MergeCopyLoop(operations, operations[startIdx], startIdx + 1)

RECURSIVE MergeInsertLoop(_, _, _, _, _)
MergeInsertLoop(operations, mergedOp, mergedData, h, i) ==
    IF i <= Len(operations) /\ operations[i].Type = OpInsert
          /\ operations[i - 1].Offset + operations[i - 1].Size = operations[i].Offset
    THEN LET grown == AppendBytes(h, mergedData, SliceBytes(h, operations[i].Data))
         IN  MergeInsertLoop(operations, [mergedOp EXCEPT !.Size = @ + operations[i].Size],
                             grown.slice, grown.heap, i + 1)
    ELSE [op |-> [mergedOp EXCEPT !.Data = mergedData], next |-> i, heap |-> h]

mergeInsertOperations(operations, h, startIdx) ==
    LET mergedOp == operations[startIdx]
        made == MakeSlice(h, mergedOp.Size)
        first == AppendBytes(made.heap, made.slice, SliceBytes(h, mergedOp.Data))
    IN  MergeInsertLoop(operations, mergedOp, first.slice, first.heap, startIdx + 1)

RECURSIVE MergeDeleteLoop(_, _, _)
MergeDeleteLoop(operations, mergedOp, i) ==
    IF i <= Len(operations) /\ operations[i].Type = OpDelete
          /\ operations[i - 1].Offset + operations[i - 1].Size = operations[i].Offset
    THEN MergeDeleteLoop(operations, [mergedOp EXCEPT !.Size = @ + operations[i].Size], i + 1)
    ELSE [op |-> mergedOp, next |-> i]

mergeDeleteOperations(operations, startIdx) ==
    MergeDeleteLoop(operations, operations[startIdx], startIdx + 1)

\* the loop over delta.Operations of OptimizeDelta
RECURSIVE OptimizeLoop(_, _, _, _, _)
OptimizeLoop(operations, i, result, h, config) ==
    IF i > Len(operations) THEN [result |-> result, heap |-> h]
    ELSE LET op == operations[i]
         IN  IF op.Type = OpCopy /\ config.EnableMergeCopy
             THEN LET m == mergeCopyOperations(operations, i)
                  IN  OptimizeLoop(operations, m.next, AddOperation(result, m.op), h, config)
             ELSE IF op.Type = OpInsert /\ config.EnableMergeInsert
             THEN LET m == mergeInsertOperations(operations, h, i)
                  IN  OptimizeLoop(operations, m.next, AddOperation(result, m.op), m.heap, config)
             ELSE IF op.Type = OpDelete /\ config.EnableMergeDelete
             THEN LET m == mergeDeleteOperations(operations, i)
                  IN  OptimizeLoop(operations, m.next, AddOperation(result, m.op), h, config)
             ELSE OptimizeLoop(operations, i + 1, AddOperation(result, op), h, config)

\* input is the argument as the call leaves it (its empty operations are
\* removed in place), result the Delta returned
OptimizeDelta(d, h, config) ==
    IF Len(d.Operations) = 0 THEN [input |-> d, result |-> d, heap |-> h]
    ELSE LET filtered == [d EXCEPT !.Operations = RemoveEmptyOperations(@)]
             looped == OptimizeLoop(filtered.Operations, 1,
                                    [filtered EXCEPT !.Operations = <<>>], h, config)
         IN  [input |-> filtered,
              result |-> [looped.result EXCEPT !.Operations = optimizeRedundantDeletes(@)],
              heap |-> looped.heap]

----------------------------------------------------------------------------
(* pkg/patch generator: GeneratePatch *)

\* the Delta, its heap and the patch file written (GeneratePatch reads the
\* clock once, in NewPatchHeader)
patchWritten(gen, ser) ==
    [delta |-> gen.delta, heap |-> gen.heap, err |-> ser.err, file |-> ser.file]

\* GeneratePatch once the engine has returned gen
serializeGenerated(gen, sourceChecksum, c, now) ==
    patchWritten(gen, SerializeDelta(gen.delta, gen.heap, sourceChecksum,
                                     c.Compression, now))

GeneratePatch(oldData, newData, c, now) ==
    serializeGenerated(GenerateDelta(oldData, newData, c),
                       calculateFileChecksum(File(oldData)).sum, c, now)

ApplierDefault == [VerifyTarget |-> TRUE, BackupEnabled |-> TRUE]

----------------------------------------------------------------------------
(* DirPatchSerializer.serializeDelta: the per-file delta of a directory     *)
(* patch, later handed to Applier.ApplyDelta; it leaves SourceChecksum zero *)

RECURSIVE DirConvertOps(_, _, _)
DirConvertOps(pf, ops, h) ==
    IF ops = <<>> THEN pf
    ELSE LET op == Head(ops)
             patchOp == [Type |-> op.Type, Reserved |-> 0, Size |-> op.Size,
                         Offset |-> op.Offset, SrcOffset |-> op.SrcOffset,
                         DataOffset |-> IF op.Type = 1 THEN Len(pf.Data) ELSE 0]
         IN  DirConvertOps([pf EXCEPT
                               !.Operations = Append(@, patchOp),
                               !.Data = IF op.Type = 1
                                        THEN @ \o SliceBytes(h, op.Data) ELSE @],
                           Tail(ops), h)

serializeDelta(d, h, now) ==
    LET pf == DirConvertOps([Operations |-> <<>>, Data |-> <<>>], d.Operations, h)
        header == [Magic |-> MagicNumber, Version |-> 1, Compression |-> CompressionNone,
                   Reserved |-> 0, Timestamp |-> now,
                   SourceSize |-> d.SourceSize, TargetSize |-> d.TargetSize,
                   SourceChecksum |-> ZeroChecksum, TargetChecksum |-> d.Checksum,
                   OperationCount |-> Len(d.Operations),
                   DataOffset |-> HeaderSize + Len(d.Operations) * OperationSize]
    IN  [Header |-> MarshalHeader(header), Rest |-> MarshalOps(pf.Operations) \o pf.Data]

----------------------------------------------------------------------------
(* Values of the variables a driver does not use *)

IdleDelta == NewDelta(0, 0)
IdleOut == [err |-> None, step |-> 0]
IdleHdr == MarshalHeader(NewPatchHeader(0))
IdleFs == [source |-> NoFile, patch |-> NoFile, target |-> NoFile,
           temp |-> NoFile, backup |-> NoFile]
IdleAp == [api |-> None, before |-> IdleFs, conf |-> ApplierDefault, fault |-> None]
IdleDir == [files |-> <<>>, workerCount |-> 1, sent |-> 0, wg |-> 0,
            fileChan |-> <<>>, fileChanClosed |-> FALSE,
            errChan |-> <<>>, progressChan |-> <<>>, progressChanClosed |-> FALSE,
            mainPc |-> "send", workerPc |-> "range", diff |-> 0,
            progressPc |-> "range", returned |-> None]
IdleOptimized == [input |-> IdleDelta, result |-> IdleDelta, heap |-> <<>>]
IdleTree == [old |-> <<>>, new |-> <<>>]
IdleCfg == [BlockSize |-> DefaultBlockSize, EnableCRC32 |-> TRUE, EnableSHA256 |-> TRUE,
            Compression |-> CompressionNone]

----------------------------------------------------------------------------
(* Generate a patch from src and tgt, then apply it to src *)

RECURSIVE Concat(_)
Concat(blocks) == IF blocks = <<>> THEN <<>> ELSE Head(blocks) \o Concat(Tail(blocks))

\* the files of at most maxBlocks whole blocks and a tail
Files(maxBlocks) ==
    {Concat(blocks) \o tail : blocks \in SeqsUpTo(FullBlocks, maxBlocks), tail \in Tails}

SrcFiles == Files(MaxSrcBlocks) \cup {Tail(ZeroCrcBlock)}
TgtFiles == Files(MaxTgtBlocks) \cup {ZeroCrcBlock}
Configs == [BlockSize : BlockSizes, EnableCRC32 : BOOLEAN, EnableSHA256 : BOOLEAN,
            Compression : {CompressionNone, CompressionGzip}]

Init ==
    /\ mode = "pipe"
    /\ tree = IdleTree
    /\ pc = "start"
    /\ src \in SrcFiles
    /\ tgt \in TgtFiles
    /\ cfg \in Configs
    /\ heap = <<>>
    /\ delta = IdleDelta
    /\ clock = 0
    /\ patches = <<>>
    /\ out = IdleOut
    /\ hdr = IdleHdr
    /\ fs = IdleFs
    /\ ap = IdleAp
    /\ optimized = IdleOptimized
    /\ dir = IdleDir

\* Generator.GeneratePatch(oldFilePath, newFilePath, patchPath)
DoGeneratePatch ==
    /\ mode = "pipe"
    /\ pc = "start"
    /\ \E g \in {GeneratePatch(src, tgt, cfg, clock)} :
           /\ delta' = g.delta
           /\ heap' = g.heap
           /\ patches' = <<g.file>>
           /\ fs' = [IdleFs EXCEPT !.source = File(src), !.patch = File(g.file)]
    /\ pc' = "generated"
    /\ UNCHANGED <<tree, mode, src, tgt, cfg, clock, out, hdr, ap, optimized, dir>>

\* Applier.ApplyPatch(sourceFilePath, patchFilePath, targetFilePath) with the
\* default configuration, no file-system call failing
DoApplyPatch ==
    /\ mode = "pipe"
    /\ pc = "generated"
    /\ \E r \in {ApplyPatch(fs, ap.conf, ap.fault)} :
           /\ fs' = r.fs
           /\ out' = [err |-> r.err, step |-> r.step]
           /\ ap' = [ap EXCEPT !.api = "ApplyPatch", !.before = fs]
    /\ pc' = "applied"
    /\ UNCHANGED <<tree, mode, src, tgt, cfg, heap, delta, clock, patches, hdr, optimized, dir>>

Next == DoGeneratePatch \/ DoApplyPatch

Spec == Init /\ [][Next]_vars

----------------------------------------------------------------------------
(* Claims about the generated delta and the round trip *)

OpsOfType(d, t) == {i \in 1..Len(d.Operations) : d.Operations[i].Type = t}
Writers(d) == OpsOfType(d, OpCopy) \cup OpsOfType(d, OpInsert)
\* target range [Offset, Offset + Size) of operation i
RangeOf(d, i) == d.Operations[i].Offset .. (d.Operations[i].Offset + d.Operations[i].Size - 1)
RECURSIVE SizeSum(_, _)
SizeSum(d, ids) ==
    IF ids = {} THEN 0
    ELSE LET i == CHOOSE x \in ids : TRUE
         IN  d.Operations[i].Size + SizeSum(d, ids \ {i})

\* C1: applying the patch generate(S, T) wrote to S succeeds and leaves T's
\* bytes at the target path (stated for the configurations that compute both
\* digest classes, the engine's default)
C1_RoundTrip ==
    (pc = "applied" /\ cfg.EnableCRC32 /\ cfg.EnableSHA256) =>
        (out.err = None /\ fs.target = File(tgt))

\* C2: the target ranges of the COPY and INSERT operations of a generated
\* delta are pairwise disjoint and their union is [0, |T|)
C2_Coverage ==
    pc # "start" =>
        /\ \A i, j \in Writers(delta) : i # j => RangeOf(delta, i) \cap RangeOf(delta, j) = {}
        /\ UNION {RangeOf(delta, i) : i \in Writers(delta)} = 0 .. (Len(tgt) - 1)

\* C7: the digest recorded in a generated delta is SHA-256 of T
C7_DigestFidelity ==
    pc # "start" => delta.Checksum = Sha256Sum(tgt)

\* C7 as amended: with EnableSHA256 set the digest is SHA-256 of T, and
\* without it the digest is all zero
C7_DigestWhenEnabled ==
    pc # "start" =>
        delta.Checksum = IF cfg.EnableSHA256 THEN Sha256Sum(tgt) ELSE ZeroChecksum

C7_Witness ==
    pc # "start" /\ cfg.EnableSHA256 /\ Len(tgt) > cfg.BlockSize
        /\ delta.Checksum = Sha256Sum(tgt)

\* C8: generate(S, S) inserts nothing and copies |S| bytes
C8_SelfPatchMinimal ==
    (pc # "start" /\ tgt = src) =>
        /\ SizeSum(delta, OpsOfType(delta, OpInsert)) = 0
        /\ SizeSum(delta, OpsOfType(delta, OpCopy)) = Len(src)

\* the blocks a file is read in, and the offset of the k-th of them
BlocksOf(data) == ReadBlocks(data, cfg.BlockSize)
WindowOffset(k) == (k - 1) * cfg.BlockSize

\* the source blocks whose fast hash is that of the window w
SameHash(w) == {j \in 1..Len(BlocksOf(src)) : FastHash(BlocksOf(src)[j]) = FastHash(w)}

\* the window has the fast hash of some source block and the CRC of none of them
CollidesOnly(w) ==
    /\ SameHash(w) # {}
    /\ \A j \in SameHash(w) : ChecksumIEEE(BlocksOf(src)[j]) # ChecksumIEEE(w)

\* C13: a target window that has the fast hash of a source block but not its
\* CRC is not the target of a COPY; it lies in the range of an INSERT
C13_CollisionGuard ==
    pc # "start" =>
        \A k \in 1..Len(BlocksOf(tgt)) :
            CollidesOnly(BlocksOf(tgt)[k]) =>
                /\ \A i \in OpsOfType(delta, OpCopy) :
                       delta.Operations[i].Offset # WindowOffset(k)
                /\ \E i \in OpsOfType(delta, OpInsert) : WindowOffset(k) \in RangeOf(delta, i)

\* the bytes the INSERT at i of the returned Delta holds
InsertData(i) == SliceBytes(heap, delta.Operations[i].Data)

\* C25: every INSERT of the returned Delta holds Size bytes, the bytes of the
\* target at [Offset, Offset + Size)
C25_InsertDataIsTarget ==
    (mode = "pipe" /\ pc # "start") =>
        \A i \in OpsOfType(delta, OpInsert) :
            /\ Len(InsertData(i)) = delta.Operations[i].Size
            /\ InsertData(i) = Slice(tgt, delta.Operations[i].Offset + 1,
                                     delta.Operations[i].Offset + delta.Operations[i].Size)

----------------------------------------------------------------------------
(* GeneratePatch run repeatedly on the same files while the clock advances *)

\* most whole blocks of a file of the repeated runs
MaxRunBlocks == 1

InitRuns ==
    /\ mode = "runs"
    /\ tree = IdleTree
    /\ pc = "start"
    /\ src \in Files(MaxRunBlocks)
    /\ tgt \in Files(MaxRunBlocks)
    /\ cfg \in Configs
    /\ heap = <<>>
    /\ delta = IdleDelta
    /\ clock = 0
    /\ patches = <<>>
    /\ out = IdleOut
    /\ hdr = IdleHdr
    /\ fs = IdleFs
    /\ ap = IdleAp
    /\ optimized = IdleOptimized
    /\ dir = IdleDir

\* a second passes
Tick ==
    /\ mode = "runs"
    /\ clock < MaxClock
    /\ clock' = clock + 1
    /\ UNCHANGED <<tree, mode, pc, src, tgt, cfg, heap, delta, patches, out, hdr, fs, ap, optimized, dir>>

\* one more run of Generator.GeneratePatch on the same two files
RunGeneratePatch ==
    /\ mode = "runs"
    /\ Len(patches) < MaxRuns
    /\ \E g \in {GeneratePatch(src, tgt, cfg, clock)} :
           /\ delta' = g.delta
           /\ heap' = g.heap
           /\ patches' = Append(patches, g.file)
    /\ pc' = "generated"
    /\ UNCHANGED <<tree, mode, src, tgt, cfg, clock, out, hdr, fs, ap, optimized, dir>>

NextRuns == Tick \/ RunGeneratePatch

SpecRuns == InitRuns /\ [][NextRuns]_vars

WithoutTimestamp(file) == [file EXCEPT !.Header.Timestamp = PutUint64(0)]

----------------------------------------------------------------------------
(* One call of the applier on files found on disk: a patch written by the   *)
(* generator or by the directory serializer, possibly damaged since, a      *)
(* source that may have changed, a target path that may be taken            *)

\* most whole blocks of a file of the apply runs
MaxApplyBlocks == 0

ApplyConfigs == [BlockSize : BlockSizes, EnableCRC32 : {TRUE}, EnableSHA256 : BOOLEAN,
                 Compression : {CompressionNone}]

\* what happened to the patch file since it was written
Damage(file, how) ==
    IF how = "magic" THEN [file EXCEPT !.Header.Magic = 0]
    ELSE IF how = "data" THEN [file EXCEPT !.Rest = Slice(@, 1, Len(@) - 1)]
    ELSE file

InitApply ==
    /\ mode = "apply"
    /\ tree = IdleTree
    /\ pc = "start"
    /\ src \in Files(MaxApplyBlocks)
    /\ tgt \in Files(MaxApplyBlocks)
    /\ cfg \in ApplyConfigs
    /\ clock = 0
    /\ \E writer \in {"generator", "dir"}, how \in {"none", "magic", "data"},
          onDisk \in {File(src), File(src \o <<1>>), NoFile},
          old \in {NoFile, File(<<1, 1, 1>>)} :
          \E g \in {GeneratePatch(src, tgt, cfg, clock)} :
          \E file \in {IF writer = "generator" THEN g.file
                        ELSE serializeDelta(g.delta, g.heap, clock)} :
              /\ heap = g.heap
              /\ delta = g.delta
              /\ patches = <<file>>
              /\ fs = [IdleFs EXCEPT !.source = onDisk,
                                     !.patch = File(Damage(file, how)),
                                     !.target = old]
    /\ \E conf \in [VerifyTarget : BOOLEAN, BackupEnabled : BOOLEAN],
          fault \in {"none", "temp", "backup", "rename"} :
          ap = [api |-> None, before |-> fs, conf |-> conf, fault |-> fault]
    /\ out = IdleOut
    /\ hdr = IdleHdr
    /\ optimized = IdleOptimized
    /\ dir = IdleDir

\* Applier.ApplyPatch(sourceFilePath, patchFilePath, targetFilePath)
CallApplyPatch ==
    /\ mode = "apply"
    /\ pc = "start"
    /\ \E r \in {ApplyPatch(fs, ap.conf, ap.fault)} :
           /\ fs' = r.fs
           /\ out' = [err |-> r.err, step |-> r.step]
    /\ ap' = [ap EXCEPT !.api = "ApplyPatch"]
    /\ pc' = "applied"
    /\ UNCHANGED <<tree, mode, src, tgt, cfg, heap, delta, clock, patches, hdr, optimized, dir>>

\* Applier.ApplyDelta(sourceFilePath, deltaData, targetFilePath)
CallApplyDelta ==
    /\ mode = "apply"
    /\ pc = "start"
    /\ \E r \in {ApplyDelta(fs, ap.conf, ap.fault)} :
           /\ fs' = r.fs
           /\ out' = [err |-> r.err, step |-> r.step]
    /\ ap' = [ap EXCEPT !.api = "ApplyDelta"]
    /\ pc' = "applied"
    /\ UNCHANGED <<tree, mode, src, tgt, cfg, heap, delta, clock, patches, hdr, optimized, dir>>

NextApply == CallApplyPatch \/ CallApplyDelta

SpecApply == InitApply /\ [][NextApply]_vars

\* C3: an apply that fails in one of steps 1-5 leaves the target path as it
\* was before the call, in existence and in bytes
C3_ApplierSafety ==
    (mode = "apply" /\ pc = "applied" /\ out.step \in 1..5) =>
        fs.target = ap.before.target

C3_Witness ==
    /\ mode = "apply" /\ pc = "applied"
    /\ out.step = 5
    /\ ap.before.target.exists
    /\ fs.target = ap.before.target

\* the header the applier read from the patch file
LoadedHeader == DeserializePatch(fs.patch.data).patchFile.Header

\* C10: with an all-zero source digest in the header the apply is never
\* rejected by the source check, and with a non-zero digest a source whose
\* digest differs is rejected
C10_SourceDigestOnlyWhenNonZero ==
    (mode = "apply" /\ pc = "applied" /\ out.step # 1) =>
        IF isZeroChecksum(LoadedHeader.SourceChecksum)
        THEN out.err # "verify source file"
        ELSE (calculateFileChecksum(ap.before.source).sum # LoadedHeader.SourceChecksum
                 => out.err = "verify source file")

\* C11: when an apply returns an error, whatever the step that failed, no
\* temp file is left
C11_TempFileRemoved ==
    (mode = "apply" /\ pc = "applied" /\ out.err # None) => ~fs.temp.exists

C11_Witness ==
    /\ mode = "apply" /\ pc = "applied"
    /\ out.step \in {4, 6, 7}
    /\ ~fs.temp.exists

----------------------------------------------------------------------------
(* The optimizer run on a well-formed Delta: operations in ascending target *)
(* order, COPY and INSERT tiling [0, TargetSize), COPY inside the source,   *)
(* DELETE before the write at the same offset                               *)

\* most operations of a Delta handed to the optimizer
MaxOptOps == 3

OpSizes == 0..2
OptSources == {<<0, 1>>, <<1>>}
InsertPayloads == {<<>>, <<1>>, <<1, 0>>}

\* an operation but for its target offset
Shapes(source) ==
    {[Type |-> OpCopy, Size |-> n, SrcOffset |-> o, Payload |-> <<>>] :
        n \in OpSizes, o \in 0..Len(source)}
    \cup {[Type |-> OpInsert, Size |-> Len(b), SrcOffset |-> 0, Payload |-> b] :
        b \in InsertPayloads}
    \cup {[Type |-> OpDelete, Size |-> n, SrcOffset |-> 0, Payload |-> <<>>] :
        n \in OpSizes}

ValidShape(sh, source) == sh.Type = OpCopy => sh.SrcOffset + sh.Size <= Len(source)

\* the Delta whose operations have these shapes, laid out from offset pos on
RECURSIVE LayOut(_, _, _, _)
LayOut(shapes, pos, d, h) ==
    IF shapes = <<>> THEN [delta |-> [d EXCEPT !.TargetSize = pos], heap |-> h]
    ELSE LET sh == Head(shapes)
             made == MakeSlice(h, Len(sh.Payload))
             filled == AppendBytes(made.heap, made.slice, sh.Payload)
             op == [Type |-> sh.Type, Offset |-> pos, Size |-> sh.Size,
                    Data |-> IF sh.Type = OpInsert /\ sh.Size > 0
                             THEN filled.slice ELSE NilSlice,
                    SrcOffset |-> sh.SrcOffset]
         IN  LayOut(Tail(shapes),
                    IF sh.Type = OpDelete THEN pos ELSE pos + sh.Size,
                    AddOperation(d, op),
                    IF sh.Type = OpInsert /\ sh.Size > 0 THEN filled.heap ELSE h)

\* S3's ordering rule: at one offset a DELETE comes before the writes
DeletesFirst(ops) ==
    \A i \in 1..(Len(ops) - 1) :
        (ops[i + 1].Type = OpDelete /\ ops[i].Type # OpDelete) => ops[i].Size > 0

OptimizerConfigs ==
    [EnableMergeCopy : BOOLEAN, EnableMergeInsert : BOOLEAN, EnableMergeDelete : BOOLEAN]

InitOpt ==
    /\ mode = "opt"
    /\ tree = IdleTree
    /\ pc = "start"
    /\ src \in OptSources
    /\ \E shapes \in SeqsUpTo({sh \in Shapes(src) : ValidShape(sh, src)}, MaxOptOps) :
          LET laid == LayOut(shapes, 0, NewDelta(Len(src), 0), <<>>)
          IN  /\ DeletesFirst(laid.delta.Operations)
              /\ delta = laid.delta
              /\ heap = laid.heap
    /\ \E config \in OptimizerConfigs :
          cfg = config
    /\ tgt = <<>>
    /\ clock = 0
    /\ patches = <<>>
    /\ out = IdleOut
    /\ hdr = IdleHdr
    /\ fs = IdleFs
    /\ ap = IdleAp
    /\ optimized = IdleOptimized
    /\ dir = IdleDir

\* Optimizer.OptimizeDelta(delta)
CallOptimizeDelta ==
    /\ mode = "opt"
    /\ pc = "start"
    /\ optimized' = OptimizeDelta(delta, heap, cfg)
    /\ pc' = "optimized"
    /\ UNCHANGED <<tree, mode, src, tgt, cfg, heap, delta, clock, patches, out, hdr, fs, ap, dir>>

NextOpt == CallOptimizeDelta

SpecOpt == InitOpt /\ [][NextOpt]_vars

\* apply(D, S): D written by the serializer, read back and applied to S
Outcome(r) == [err |-> r.err, target |-> r.fs.target]

ApplyOf(d, h, source) ==
    Outcome(ApplyDelta([IdleFs EXCEPT
                           !.source = File(source),
                           !.patch = File(SerializeDelta(d, h, ZeroChecksum,
                                                         CompressionNone, 0).file)],
                       ApplierDefault, "none"))

----------------------------------------------------------------------------
(* Loading a patch file whose header fields were set by whoever wrote it *)

\* most operations the loaded header announces
MaxLoadOps == 1

WireSizes == {PutUint64(n) : n \in {-1, 0, 1}}

WireHeaders ==
    [Magic : {MagicNumber, MagicNumber + 1}, Version : {Version, Version + 1},
     Compression : {CompressionNone, CompressionGzip}, Reserved : {0},
     Timestamp : {PutUint64(0)}, SourceSize : WireSizes, TargetSize : WireSizes,
     SourceChecksum : {ZeroChecksum}, TargetChecksum : {ZeroChecksum},
     OperationCount : 0..MaxLoadOps,
     DataOffset : {0} \cup {HeaderSize + k * OperationSize : k \in 0..MaxLoadOps}]

\* an operation table of count COPY records of one byte each
RECURSIVE CopyTable(_)
CopyTable(count) ==
    IF count = 0 THEN <<>>
    ELSE CopyTable(count - 1) \o
         MarshalOp([Type |-> OpCopy, Reserved |-> 0, Size |-> 1, Offset |-> count - 1,
                    SrcOffset |-> 0, DataOffset |-> 0])

InitLoad ==
    /\ mode = "load"
    /\ tree = IdleTree
    /\ pc = "start"
    /\ hdr \in WireHeaders
    /\ \E whole \in BOOLEAN :
          LET table == CopyTable(hdr.OperationCount)
          IN  patches = <<[Header |-> hdr,
                           Rest |-> IF whole THEN table
                                    ELSE Slice(table, 1, Len(table) - 1)]>>
    /\ src = <<>>
    /\ tgt = <<>>
    /\ cfg = IdleCfg
    /\ heap = <<>>
    /\ delta = IdleDelta
    /\ clock = 0
    /\ out = IdleOut
    /\ fs = IdleFs
    /\ ap = IdleAp
    /\ optimized = IdleOptimized
    /\ dir = IdleDir

\* Serializer.DeserializePatch(inputPath)
CallDeserializePatch ==
    /\ mode = "load"
    /\ pc = "start"
    /\ out' = [err |-> DeserializePatch(patches[1]).err, step |-> 1]
    /\ pc' = "loaded"
    /\ UNCHANGED <<tree, mode, src, tgt, cfg, heap, delta, clock, patches, hdr, fs, ap,
                   optimized, dir>>

\* PatchHeader.Unmarshal(data) on the header bytes alone
CallUnmarshal ==
    /\ mode = "load"
    /\ pc = "start"
    /\ out' = [err |-> UnmarshalHeader(hdr).err, step |-> 1]
    /\ pc' = "parsed"
    /\ UNCHANGED <<tree, mode, src, tgt, cfg, heap, delta, clock, patches, hdr, fs, ap,
                   optimized, dir>>

NextLoad == CallDeserializePatch \/ CallUnmarshal

SpecLoad == InitLoad /\ [][NextLoad]_vars

\* C9: a load succeeds only if the magic matches, the version is 1, both
\* sizes are non-negative and data_offset = 104 + 26 * operation_count
C9_LoadValidation ==
    (mode = "load" /\ pc = "loaded" /\ out.err = None) =>
        /\ hdr.Magic = MagicNumber
        /\ hdr.Version = 1
        /\ Int64(hdr.SourceSize) >= 0 /\ Int64(hdr.TargetSize) >= 0
        /\ hdr.DataOffset = HeaderSize + OperationSize * hdr.OperationCount

----------------------------------------------------------------------------
(* pkg/diff/walk.go ProcessDirDiff: the calling goroutine, the one worker   *)
(* goroutine and the progress goroutine.  A file of the job is TRUE when    *)
(* its processing (GenerateDelta or os.ReadFile) fails.  An error is named  *)
(* by the index of its file.                                                *)

\* most files (modified, then added) of a directory diff
MaxDirFiles == 3

WorkerCounts == {1, 2}

\* make(chan error, 1)
ErrChanCap == 1

InitDir ==
    /\ mode = "dir"
    /\ tree = IdleTree
    /\ pc = "start"
    /\ \E files \in SeqsUpTo(BOOLEAN, MaxDirFiles), n \in WorkerCounts :
          dir = [IdleDir EXCEPT !.files = files, !.workerCount = n]
    /\ src = <<>>
    /\ tgt = <<>>
    /\ cfg = IdleCfg
    /\ heap = <<>>
    /\ delta = IdleDelta
    /\ clock = 0
    /\ patches = <<>>
    /\ out = IdleOut
    /\ hdr = IdleHdr
    /\ fs = IdleFs
    /\ ap = IdleAp
    /\ optimized = IdleOptimized

DirFrame == UNCHANGED <<tree, mode, pc, src, tgt, cfg, heap, delta, clock, patches, out, hdr,
                        fs, ap, optimized>>

\* wg.Add(1)
MainAdd ==
    /\ mode = "dir"
    /\ dir.mainPc = "send"
    /\ dir.sent < Len(dir.files)
    /\ dir' = [dir EXCEPT !.wg = @ + 1, !.mainPc = "sending"]
    /\ DirFrame

\* fileChan <- diff
MainSend ==
    /\ mode = "dir"
    /\ dir.mainPc = "sending"
    /\ Len(dir.fileChan) < dir.workerCount * 2
    /\ dir' = [dir EXCEPT !.fileChan = Append(@, dir.sent + 1), !.sent = @ + 1,
                          !.mainPc = "send"]
    /\ DirFrame

\* close(fileChan)
MainClose ==
    /\ mode = "dir"
    /\ dir.mainPc = "send"
    /\ dir.sent = Len(dir.files)
    /\ dir' = [dir EXCEPT !.fileChanClosed = TRUE, !.mainPc = "wait"]
    /\ DirFrame

\* wg.Wait(); close(progressChan)
MainWait ==
    /\ mode = "dir"
    /\ dir.mainPc = "wait"
    /\ dir.wg = 0
    /\ dir' = [dir EXCEPT !.progressChanClosed = TRUE, !.mainPc = "select"]
    /\ DirFrame

\* select { case err := <-errChan: return err; default: }; return nil
MainReturn ==
    /\ mode = "dir"
    /\ dir.mainPc = "select"
    /\ dir' = [dir EXCEPT
                 !.returned = IF dir.errChan # <<>> THEN Head(dir.errChan) ELSE 0,
                 !.errChan = IF @ # <<>> THEN Tail(@) ELSE @,
                 !.mainPc = "done"]
    /\ DirFrame

\* for diff := range fileChan: the next file, or the end of the loop
WorkerRange ==
    /\ mode = "dir"
    /\ dir.workerPc = "range"
    /\ \/ /\ dir.fileChan # <<>>
          /\ dir' = [dir EXCEPT !.diff = Head(dir.fileChan), !.fileChan = Tail(@),
                                !.workerPc = IF dir.files[Head(dir.fileChan)]
                                             THEN "error" ELSE "progress"]
       \/ /\ dir.fileChan = <<>> /\ dir.fileChanClosed
          /\ dir' = [dir EXCEPT !.workerPc = "exit"]
    /\ DirFrame

\* errChan <- fmt.Errorf(...); wg.Done(); continue
WorkerError ==
    /\ mode = "dir"
    /\ dir.workerPc = "error"
    /\ Len(dir.errChan) < ErrChanCap
    /\ dir' = [dir EXCEPT !.errChan = Append(@, dir.diff), !.wg = @ - 1,
                          !.workerPc = "range"]
    /\ DirFrame

\* progressChan <- fileSize; wg.Done()
WorkerProgress ==
    /\ mode = "dir"
    /\ dir.workerPc = "progress"
    /\ Len(dir.progressChan) < dir.workerCount * 2
    /\ dir' = [dir EXCEPT !.progressChan = Append(@, dir.diff), !.wg = @ - 1,
                          !.workerPc = "range"]
    /\ DirFrame

\* for delta := range progressChan
ProgressRange ==
    /\ mode = "dir"
    /\ dir.progressPc = "range"
    /\ \/ /\ dir.progressChan # <<>>
          /\ dir' = [dir EXCEPT !.progressChan = Tail(@)]
       \/ /\ dir.progressChan = <<>> /\ dir.progressChanClosed
          /\ dir' = [dir EXCEPT !.progressPc = "exit"]
    /\ DirFrame

NextDir ==
    \/ MainAdd \/ MainSend \/ MainClose \/ MainWait \/ MainReturn
    \/ WorkerRange \/ WorkerError \/ WorkerProgress
    \/ ProgressRange

SpecDir == InitDir /\ [][NextDir]_vars

FailingFiles == {i \in 1..Len(dir.files) : dir.files[i]}

\* C4: a job with failing files comes to return, and what it returns is the
\* first error; the errors after it do not change that
C4_FirstErrorWins ==
    (mode = "dir" /\ FailingFiles # {}) =>
        /\ dir.mainPc = "done" =>
              dir.returned = CHOOSE i \in FailingFiles : \A j \in FailingFiles : i <= j
        /\ dir.mainPc # "done" => ENABLED NextDir

\* the Go scheduler runs a goroutine that can take a step
SpecDirFair == SpecDir /\ WF_vars(NextDir)

\* C24: every call of ProcessDirDiff returns, whatever the number of files
\* whose processing fails
C24_AlwaysReturns == (mode = "dir") ~> (dir.mainPc = "done")

----------------------------------------------------------------------------
(* Signature.FindBlock called as processBlock calls it: on the signature of *)
(* a source file, with a block read from the target and its FastHash        *)

\* most whole blocks of the source file whose signature is searched
MaxFindBlocks == 1

FindSources == Files(MaxFindBlocks) \cup {ZeroCrcBlock, Tail(ZeroCrcBlock)}
FindConfigs == [BlockSize : BlockSizes, EnableCRC32 : BOOLEAN, EnableSHA256 : {TRUE},
                Compression : {CompressionNone}]

InitFind ==
    /\ mode = "find"
    /\ tree = IdleTree
    /\ pc = "start"
    /\ src \in FindSources
    /\ tgt \in BlockVals \ {<<>>}
    /\ cfg \in FindConfigs
    /\ heap = <<>>
    /\ delta = IdleDelta
    /\ clock = 0
    /\ patches = <<>>
    /\ out = IdleOut
    /\ hdr = IdleHdr
    /\ fs = IdleFs
    /\ ap = IdleAp
    /\ optimized = IdleOptimized
    /\ dir = IdleDir

\* signature.FindBlock(hexhash.FastHash(blockData), blockData)
CallFindBlock ==
    /\ mode = "find"
    /\ pc = "start"
    /\ \E sig \in {GenerateSignature(src, cfg)} :
           out' = [sig |-> sig, hash |-> FastHash(tgt),
                   found |-> FindBlock(sig, FastHash(tgt), tgt)]
    /\ pc' = "found"
    /\ UNCHANGED <<tree, mode, src, tgt, cfg, heap, delta, clock, patches, hdr, fs, ap,
                   optimized, dir>>

NextFind == CallFindBlock

SpecFind == InitFind /\ [][NextFind]_vars

\* the bucket of the hash looked up
FoundBucket == IF out.hash \in DOMAIN out.sig.Blocks THEN out.sig.Blocks[out.hash] ELSE <<>>

\* the blocks of the bucket with the candidate's CRC and length
CrcAndLengthHits ==
    {i \in 1..Len(FoundBucket) :
        FoundBucket[i].Checksum = ChecksumIEEE(tgt) /\ FoundBucket[i].Size = Len(tgt)}

\* C12: the lookup returns the first block of the bucket whose CRC and length
\* are the candidate's, and nothing when the bucket has no such block
C12_FindBlock ==
    (mode = "find" /\ pc = "found") =>
        IF CrcAndLengthHits = {} THEN out.found = NilBlock
        ELSE out.found =
                <<FoundBucket[CHOOSE i \in CrcAndLengthHits :
                                 \A j \in CrcAndLengthHits : i <= j]>>

----------------------------------------------------------------------------
(* strings and path/filepath: a string is the sequence of its characters   *)

HasPrefix(str, prefix) ==
    Len(prefix) <= Len(str) /\ SubSeq(str, 1, Len(prefix)) = prefix

HasSuffix(str, suffix) ==
    Len(suffix) <= Len(str) /\ SubSeq(str, Len(str) - Len(suffix) + 1, Len(str)) = suffix

\* strings.TrimPrefix
TrimPrefix(str, prefix) ==
    IF HasPrefix(str, prefix) THEN Slice(str, Len(prefix) + 1, Len(str)) ELSE str

RECURSIVE TrimSlashes(_)
TrimSlashes(path) ==
    IF path # <<>> /\ path[Len(path)] = "/"
    THEN TrimSlashes(SubSeq(path, 1, Len(path) - 1)) ELSE path

RECURSIVE LastElement(_)
LastElement(path) ==
    IF path = <<>> \/ path[Len(path)] = "/" THEN <<>>
    ELSE Append(LastElement(SubSeq(path, 1, Len(path) - 1)), path[Len(path)])

\* filepath.Base
Base(path) ==
    IF path = <<>> THEN <<".">>
    ELSE IF TrimSlashes(path) = <<>> THEN <<"/">>
    ELSE LastElement(TrimSlashes(path))

----------------------------------------------------------------------------
(* pkg/diff/walk.go shouldIgnore *)

\* a mutant: the basename has to be the pattern
BaseMatches_Equal(base, pattern) == base = pattern

\* strings.HasPrefix(base, pattern)
BaseMatches(base, pattern) == HasPrefix(base, pattern)

\* the body of the loop once the leading "*" is trimmed off the pattern
matchesTrimmed(path, base, pattern) ==
    \/ /\ HasPrefix(pattern, <<"*", ".">>)
       /\ \/ HasSuffix(base, <<".">> \o TrimPrefix(pattern, <<"*", ".">>))
          \/ base = <<".">> \o TrimPrefix(pattern, <<"*", ".">>)
    \/ BaseMatches(base, pattern)
    \/ base = pattern
    \/ HasPrefix(path, pattern \o <<"/">>)
    \/ path = pattern

RECURSIVE shouldIgnore(_, _)
shouldIgnore(path, patterns) ==
    IF patterns = <<>> THEN FALSE
    ELSE IF matchesTrimmed(path, Base(path), TrimPrefix(Head(patterns), <<"*">>)) THEN TRUE
    ELSE shouldIgnore(path, Tail(patterns))

----------------------------------------------------------------------------
(* shouldIgnore called on a relative path and a list of ignore patterns *)

\* most patterns of the list
MaxPatterns == 2

\* f.s  .s  s  d/f.s  re  r  d/r  r/f  d
IgnorePaths ==
    {<<"f", ".", "s">>, <<".", "s">>, <<"s">>, <<"d", "/", "f", ".", "s">>,
     <<"r", "e">>, <<"r">>, <<"d", "/", "r">>, <<"r", "/", "f">>, <<"d">>}

\* *.s  **.s  .s  r  *r  d/r  d  f.s
IgnorePatternSet ==
    {<<"*", ".", "s">>, <<"*", "*", ".", "s">>, <<".", "s">>, <<"r">>, <<"*", "r">>,
     <<"d", "/", "r">>, <<"d">>, <<"f", ".", "s">>}

InitIgnore ==
    /\ mode = "ignore"
    /\ \E path \in IgnorePaths, patterns \in SeqsUpTo(IgnorePatternSet, MaxPatterns) :
          tree = [path |-> path, patterns |-> patterns]
    /\ pc = "start"
    /\ src = <<>>
    /\ tgt = <<>>
    /\ cfg = IdleCfg
    /\ heap = <<>>
    /\ delta = IdleDelta
    /\ clock = 0
    /\ patches = <<>>
    /\ out = IdleOut
    /\ hdr = IdleHdr
    /\ fs = IdleFs
    /\ ap = IdleAp
    /\ optimized = IdleOptimized
    /\ dir = IdleDir

\* shouldIgnore(relPath, config.IgnorePatterns)
CallShouldIgnore ==
    /\ mode = "ignore"
    /\ pc = "start"
    /\ out' = [ignored |-> shouldIgnore(tree.path, tree.patterns)]
    /\ pc' = "ignored"
    /\ UNCHANGED <<tree, mode, src, tgt, cfg, heap, delta, clock, patches, hdr, fs, ap,
                   optimized, dir>>

NextIgnore == CallShouldIgnore

SpecIgnore == InitIgnore /\ [][NextIgnore]_vars

PatternIds == 1..Len(tree.patterns)

\* C17: a path whose basename ends in the extension of a "*." pattern of the
\* list is ignored
C17_ExtensionPattern ==
    (mode = "ignore" /\ pc = "ignored") =>
        ((\E i \in PatternIds :
             /\ HasPrefix(tree.patterns[i], <<"*", ".">>)
             /\ HasSuffix(Base(tree.path), Tail(tree.patterns[i])))
         => out.ignored)

\* C18: with no "*." pattern in the list, a path is ignored only if its
\* basename is a pattern, the path is a pattern, or the path lies under a
\* pattern followed by "/"
C18_ExactMatchOnly ==
    (mode = "ignore" /\ pc = "ignored"
        /\ \A i \in PatternIds : ~HasPrefix(tree.patterns[i], <<"*", ".">>)) =>
        (out.ignored =>
            \E i \in PatternIds :
                \/ Base(tree.path) = tree.patterns[i]
                \/ tree.path = tree.patterns[i]
                \/ HasPrefix(tree.path, tree.patterns[i] \o <<"/">>))

\* C18 as amended: with no pattern of the list beginning with "*", a path is
\* ignored exactly when its basename starts with a pattern, the path is a
\* pattern, or the path lies under a pattern followed by "/"
C18_PrefixMatch ==
    (mode = "ignore" /\ pc = "ignored"
        /\ \A i \in PatternIds : ~HasPrefix(tree.patterns[i], <<"*">>)) =>
        (out.ignored <=>
            \E i \in PatternIds :
                \/ HasPrefix(Base(tree.path), tree.patterns[i])
                \/ tree.path = tree.patterns[i]
                \/ HasPrefix(tree.path, tree.patterns[i] \o <<"/">>))

C18_Witness ==
    /\ mode = "ignore" /\ pc = "ignored"
    /\ tree.patterns # <<>>
    /\ \A i \in PatternIds : ~HasPrefix(tree.patterns[i], <<"*">>)
    /\ out.ignored
    /\ \A i \in PatternIds :
          /\ Base(tree.path) # tree.patterns[i]
          /\ tree.path # tree.patterns[i]
          /\ ~HasPrefix(tree.path, tree.patterns[i] \o <<"/">>)

----------------------------------------------------------------------------
(* pkg/diff/dir.go and walk.go: walking and comparing two directories.  A   *)
(* directory on disk is a function from the relative paths in it to what is *)
(* there: a regular file, a symlink or a directory.                         *)

StatusUnchanged == 0
StatusAdded == 1
StatusDeleted == 2
StatusModified == 3

\* the callback of filepath.Walk on one entry: "skipdir" (filepath.SkipDir),
\* "skip" (return nil without recording) or "add"
walkFunc(relPath, info, config) ==
    IF config.IgnoreHidden /\ HasPrefix(Base(relPath), <<".">>)
    THEN IF info.kind = "dir" THEN "skipdir" ELSE "skip"
    ELSE IF shouldIgnore(relPath, config.IgnorePatterns)
    THEN IF info.kind = "dir" THEN "skipdir" ELSE "skip"
    ELSE IF ~config.Recursive /\ info.kind = "dir" THEN "skipdir"
    ELSE IF info.kind = "dir" THEN "skip"
    ELSE IF config.FollowSymlinks THEN "skip"
    ELSE IF info.kind = "symlink" THEN "skip"
    ELSE "add"

\* filepath.Walk does not descend into a directory whose callback returned
\* filepath.SkipDir
Pruned(relPath, onDisk, config) ==
    \E d \in DOMAIN onDisk :
        /\ HasPrefix(relPath, d \o <<"/">>)
        /\ onDisk[d].kind = "dir"
        /\ walkFunc(d, onDisk[d], config) = "skipdir"

\* the FileEntry recorded for a file; data and readable are what opening
\* AbsPath will give
NewFileEntry(info) ==
    [Size |-> Len(info.data), MTime |-> info.mtime, data |-> info.data,
     readable |-> info.readable]

\* entries, keyed by relative path
WalkDirectory(onDisk, config) ==
    [relPath \in {q \in DOMAIN onDisk :
                     /\ ~Pruned(q, onDisk, config)
                     /\ walkFunc(q, onDisk[q], config) = "add"}
        |-> NewFileEntry(onDisk[relPath])]

\* computeFileHash(entry.AbsPath)
computeFileHash(entry) ==
    IF entry.readable THEN [err |-> None, sum |-> Sha256Sum(entry.data)]
    ELSE [err |-> "open", sum |-> ZeroChecksum]

\* a path present in both trees: no FileDiff (the empty tuple) or Modified
compareBoth(oldEntry, newEntry) ==
    IF oldEntry.Size = newEntry.Size /\ oldEntry.MTime = newEntry.MTime THEN <<>>
    ELSE IF oldEntry.Size # newEntry.Size
            /\ \/ computeFileHash(oldEntry).err # None
               \/ computeFileHash(newEntry).err # None
               \/ computeFileHash(oldEntry).sum = computeFileHash(newEntry).sum
    THEN <<>>
    ELSE <<[Status |-> StatusModified, OldEntry |-> <<oldEntry>>, NewEntry |-> <<newEntry>>]>>

\* the FileDiff made for a path of allPaths, if any
compareEntry(path, oldEntries, newEntries) ==
    IF path \notin DOMAIN oldEntries
    THEN <<[Status |-> StatusAdded, OldEntry |-> <<>>, NewEntry |-> <<newEntries[path]>>]>>
    ELSE IF path \notin DOMAIN newEntries
    THEN <<[Status |-> StatusDeleted, OldEntry |-> <<oldEntries[path]>>, NewEntry |-> <<>>]>>
    ELSE compareBoth(oldEntries[path], newEntries[path])

NewDirDiffResult ==
    [AddedFiles |-> <<>>, DeletedFiles |-> <<>>, ModifiedFiles |-> <<>>]

\* result.AddFileDiff(fileDiff), fileDiff being the empty tuple for nil
AddFileDiff(result, path, fileDiff) ==
    IF fileDiff = <<>> THEN result
    ELSE IF fileDiff[1].Status = StatusAdded
    THEN [result EXCEPT !.AddedFiles =
             Append(@, [RelativePath |-> path] @@ fileDiff[1])]
    ELSE IF fileDiff[1].Status = StatusDeleted
    THEN [result EXCEPT !.DeletedFiles =
             Append(@, [RelativePath |-> path] @@ fileDiff[1])]
    ELSE [result EXCEPT !.ModifiedFiles =
             Append(@, [RelativePath |-> path] @@ fileDiff[1])]

\* for path := range allPaths, in the order the map yields the paths
RECURSIVE CompareLoop(_, _, _, _)
CompareLoop(order, oldEntries, newEntries, result) ==
    IF order = <<>> THEN result
    ELSE CompareLoop(Tail(order), oldEntries, newEntries,
                     AddFileDiff(result, Head(order),
                                 compareEntry(Head(order), oldEntries, newEntries)))

CompareDirectories(order, oldEntries, newEntries) ==
    CompareLoop(order, oldEntries, newEntries, NewDirDiffResult)

\* the worker of ProcessDirDiff on one FileDiff: GenerateDelta opens both
\* files of a modified path, os.ReadFile the new file of an added one
DiffFails(diff) ==
    IF diff.Status = StatusModified
    THEN ~diff.OldEntry[1].readable \/ ~diff.NewEntry[1].readable
    ELSE diff.Status = StatusAdded /\ ~diff.NewEntry[1].readable

\* diff.Delta = delta, or diff.PatchData = data
processedDiff(diff, c) ==
    IF diff.Status = StatusModified
    THEN [Delta |-> GenerateDelta(diff.OldEntry[1].data, diff.NewEntry[1].data, c)] @@ diff
    ELSE [PatchData |-> diff.NewEntry[1].data] @@ diff

RECURSIVE processedDiffs(_, _)
processedDiffs(diffs, c) ==
    IF diffs = <<>> THEN <<>>
    ELSE <<processedDiff(Head(diffs), c)>> \o processedDiffs(Tail(diffs), c)

RECURSIVE countFailing(_)
countFailing(diffs) ==
    IF diffs = <<>> THEN 0
    ELSE (IF DiffFails(Head(diffs)) THEN 1 ELSE 0) + countFailing(Tail(diffs))

\* ProcessDirDiff as its caller sees it: the worker sends one error per
\* failing file to errChan before wg.Done(), and nothing receives from
\* errChan before wg.Wait() has returned, so the call returns nil with no
\* failing file, the error with as many as errChan holds, and does not
\* return with more
ProcessDirDiffReturn(result) ==
    IF countFailing(result.ModifiedFiles \o result.AddedFiles) = 0 THEN "nil"
    ELSE IF countFailing(result.ModifiedFiles \o result.AddedFiles) <= ErrChanCap
    THEN "error"
    ELSE "blocked"

\* the result with the deltas and contents ProcessDirDiff stored in it
processedResult(result, c) ==
    [result EXCEPT !.ModifiedFiles = processedDiffs(@, c),
                   !.AddedFiles = processedDiffs(@, c)]

\* the DirPatchFile of SerializeDirPatch for one FileDiff
dirPatchFile(diff, now) ==
    IF diff.Status = StatusAdded
    THEN [RelativePath |-> diff.RelativePath, Status |-> diff.Status,
          MTime |-> diff.NewEntry[1].MTime, Size |-> diff.NewEntry[1].Size,
          Delta |-> diff.PatchData, IsFullContent |-> TRUE]
    ELSE IF diff.Status = StatusDeleted
    THEN [RelativePath |-> diff.RelativePath, Status |-> diff.Status,
          MTime |-> diff.OldEntry[1].MTime, Size |-> diff.OldEntry[1].Size,
          Delta |-> <<>>, IsFullContent |-> FALSE]
    ELSE [RelativePath |-> diff.RelativePath, Status |-> diff.Status,
          MTime |-> diff.NewEntry[1].MTime, Size |-> diff.NewEntry[1].Size,
          Delta |-> serializeDelta(diff.Delta.delta, diff.Delta.heap, now),
          IsFullContent |-> FALSE]

RECURSIVE dirPatchFiles(_, _)
dirPatchFiles(diffs, now) ==
    IF diffs = <<>> THEN <<>>
    ELSE <<dirPatchFile(Head(diffs), now)>> \o dirPatchFiles(Tail(diffs), now)

\* the tree-patch written: the added, the deleted, then the modified files
SerializeDirPatch(result, now) ==
    [Timestamp |-> now,
     Files |-> dirPatchFiles(result.AddedFiles, now)
                  \o dirPatchFiles(result.DeletedFiles, now)
                  \o dirPatchFiles(result.ModifiedFiles, now)]

----------------------------------------------------------------------------
(* EngineAdapter.GenerateDirDiff run, more than once, on two directories   *)
(* that do not change between the runs                                     *)

\* number of runs on the same two directories
MaxTreeRuns == 2

\* the paths of a directory, in the order filepath.Walk visits them
TreePaths == <<<<"a">>, <<"b">>>>

NewContents == {<<0>>, <<1>>, <<0, 0>>}

\* what may be at a path of the old directory, and of the new one
OldInfos ==
    {[kind |-> "file", data |-> <<0>>, mtime |-> 0, readable |-> r] : r \in BOOLEAN}
    \cup {[kind |-> "symlink", data |-> <<>>, mtime |-> 0, readable |-> TRUE]}
NewInfos ==
    {[kind |-> "file", data |-> d, mtime |-> t, readable |-> r] :
        d \in NewContents, t \in {0, 1}, r \in BOOLEAN}
    \cup {[kind |-> "symlink", data |-> <<>>, mtime |-> 0, readable |-> TRUE]}

\* the directories holding some of the paths
Dirs(infos) ==
    UNION {[present -> infos] : present \in SUBSET {TreePaths[i] : i \in DOMAIN TreePaths}}

DirDiffConfigs ==
    [Recursive : {TRUE}, IgnorePatterns : {<<<<".", "g">>, <<"*", ".", "s">>>>},
     FollowSymlinks : BOOLEAN, IgnoreHidden : {FALSE}, WorkerCount : {1}]

\* the orders in which a range over a map with these keys may yield them
Orders(keys) ==
    {order \in [1..Cardinality(keys) -> keys] :
        \A i, j \in DOMAIN order : i # j => order[i] # order[j]}

InitTree ==
    /\ mode = "tree"
    /\ pc = "start"
    /\ cfg \in DirDiffConfigs
    /\ \E old \in Dirs(OldInfos), new \in Dirs(NewInfos) :
          tree = [old |-> old, new |-> new, oldEntries |-> <<>>, newEntries |-> <<>>,
                  result |-> NewDirDiffResult]
    /\ src = <<>>
    /\ tgt = <<>>
    /\ heap = <<>>
    /\ delta = IdleDelta
    /\ clock = 0
    /\ patches = <<>>
    /\ out = IdleOut
    /\ hdr = IdleHdr
    /\ fs = IdleFs
    /\ ap = IdleAp
    /\ optimized = IdleOptimized
    /\ dir = IdleDir

TreeFrame == UNCHANGED <<mode, cfg, src, tgt, heap, delta, clock, hdr, fs, ap, optimized, dir>>

\* DirEngine.GenerateDirDiff returned nil: SerializeDirPatch writes the file
DirDiffWritten(walked) ==
    /\ ProcessDirDiffReturn(walked.result) = "nil"
    /\ patches' = Append(patches, SerializeDirPatch(processedResult(walked.result, IdleCfg),
                                                    clock))
    /\ out' = [err |-> None, step |-> 0]
    /\ pc' = "returned"
    /\ tree' = walked

\* ProcessDirDiff returned the error: nothing is serialized
DirDiffFailed(walked) ==
    /\ ProcessDirDiffReturn(walked.result) = "error"
    /\ patches' = patches
    /\ out' = [err |-> "process dir diff", step |-> 1]
    /\ pc' = "returned"
    /\ tree' = walked

\* ProcessDirDiff does not return
DirDiffBlocked(walked) ==
    /\ ProcessDirDiffReturn(walked.result) = "blocked"
    /\ patches' = patches
    /\ out' = out
    /\ pc' = "blocked"
    /\ tree' = walked

\* EngineAdapter.GenerateDirDiff: the engine of NewDirEngine(nil, dirConfig)
\* has the default DiffConfig
DoGenerateDirDiff ==
    /\ mode = "tree"
    /\ pc # "blocked"
    /\ Len(patches) < MaxTreeRuns
    /\ \E oldEntries \in {WalkDirectory(tree.old, cfg)},
          newEntries \in {WalkDirectory(tree.new, cfg)} :
       \E order \in Orders(DOMAIN oldEntries \cup DOMAIN newEntries) :
       \E walked \in {[tree EXCEPT
                          !.oldEntries = oldEntries,
                          !.newEntries = newEntries,
                          !.result = CompareDirectories(order, oldEntries, newEntries)]} :
          \/ DirDiffWritten(walked)
          \/ DirDiffFailed(walked)
          \/ DirDiffBlocked(walked)
    /\ TreeFrame

NextTree == DoGenerateDirDiff

SpecTree == InitTree /\ [][NextTree]_vars

\* the relative paths of the entries of a tree-patch, in the file's order
PathsOf(file) == [i \in DOMAIN file.Files |-> file.Files[i].RelativePath]

\* the same paths in the order the walker enumerated them
InWalkOrder(paths) ==
    SelectSeq(TreePaths, LAMBDA q : \E i \in DOMAIN paths : paths[i] = q)

\* C14: the entries of every tree-patch written are in walker-enumeration
\* order, and so the runs on the same two directories agree on the order
C14_WalkerOrder ==
    mode = "tree" =>
        /\ \A i \in DOMAIN patches : PathsOf(patches[i]) = InWalkOrder(PathsOf(patches[i]))
        /\ \A i, j \in DOMAIN patches : PathsOf(patches[i]) = PathsOf(patches[j])

InBoth(q) == q \in DOMAIN tree.oldEntries /\ q \in DOMAIN tree.newEntries

\* the entry at q needs a file read (an added file, or a file of both trees
\* that differs in size or mtime) and a file to read cannot be read
EntryFails(q) ==
    \/ /\ q \in DOMAIN tree.newEntries /\ q \notin DOMAIN tree.oldEntries
       /\ ~tree.newEntries[q].readable
    \/ /\ InBoth(q)
       /\ \/ tree.oldEntries[q].Size # tree.newEntries[q].Size
          \/ tree.oldEntries[q].MTime # tree.newEntries[q].MTime
       /\ ~tree.oldEntries[q].readable \/ ~tree.newEntries[q].readable

\* C15: when the handling of an entry fails, the run returns an error and no
\* tree-patch is written
C15_AbortOnEntryError ==
    (mode = "tree" /\ pc = "returned"
        /\ \E q \in DOMAIN tree.oldEntries \cup DOMAIN tree.newEntries : EntryFails(q)) =>
        (out.err # None /\ patches = <<>>)

IsModified(q) ==
    \E i \in DOMAIN tree.result.ModifiedFiles : tree.result.ModifiedFiles[i].RelativePath = q

\* C16: a path of both trees with equal size and different mtime is Modified
\* exactly when the contents of its two files differ
C16_ClassifiedByContent ==
    (mode = "tree" /\ pc = "returned") =>
        \A q \in DOMAIN tree.oldEntries \cup DOMAIN tree.newEntries :
            (/\ InBoth(q)
             /\ tree.oldEntries[q].Size = tree.newEntries[q].Size
             /\ tree.oldEntries[q].MTime # tree.newEntries[q].MTime
             /\ tree.oldEntries[q].readable /\ tree.newEntries[q].readable)
            => (IsModified(q) <=> tree.oldEntries[q].data # tree.newEntries[q].data)

\* C19: the walk of the new directory leaves out a symlink exactly when
\* FollowSymlinks is not set, and leaves out no regular file
C19_SymlinksOnly ==
    (mode = "tree" /\ pc # "start") =>
        \A q \in DOMAIN tree.new :
            /\ tree.new[q].kind = "symlink" =>
                  (q \notin DOMAIN tree.newEntries <=> ~cfg.FollowSymlinks)
            /\ tree.new[q].kind = "file" => q \in DOMAIN tree.newEntries

----------------------------------------------------------------------------
(* Construction: diff.NewEngine, patch.NewGenerator, then one GeneratePatch *)

\* most bytes of a file handed to the constructed generator
MaxNewLen == 2

\* pkg/diff/types.go: the largest block size DiffConfig.Validate accepts
MaxBlockSize == 65536

DefaultDiffConfig ==
    [BlockSize |-> DefaultBlockSize, WindowSize |-> 64, EnableCRC32 |-> TRUE,
     EnableSHA256 |-> TRUE, MaxMemory |-> 100 * 1024 * 1024]

\* DiffConfig.Validate
DiffConfigValidate(c) ==
    IF c.BlockSize < MinBlockSize \/ c.BlockSize > MaxBlockSize THEN "invalid block size"
    ELSE IF c.WindowSize < 8 \/ c.WindowSize > c.BlockSize THEN "invalid window size"
    ELSE IF c.MaxMemory < 1024 * 1024 THEN "invalid max memory"
    ELSE None

\* NewEngine once a nil config was replaced by the default
validatedEngine(config) ==
    IF DiffConfigValidate(config) # None
    THEN [err |-> DiffConfigValidate(config), engine |-> <<>>]
    ELSE [err |-> None, engine |-> <<[config |-> config]>>]

\* config is <<>> for nil
NewEngine(config) ==
    validatedEngine(IF config = <<>> THEN DefaultDiffConfig ELSE config[1])

NewSerializer(compression) == [compression |-> compression]

NewGenerator(engine, compression) ==
    [engine |-> engine, serializer |-> NewSerializer(compression)]

\* the configuration the generator works under: its engine's config and its
\* serializer's compression
GeneratorConfig(g) ==
    [BlockSize |-> g.engine.config.BlockSize, WindowSize |-> g.engine.config.WindowSize,
     EnableCRC32 |-> g.engine.config.EnableCRC32,
     EnableSHA256 |-> g.engine.config.EnableSHA256,
     MaxMemory |-> g.engine.config.MaxMemory,
     Compression |-> g.serializer.compression]

\* the configurations handed to NewEngine, valid and invalid, and nil
NewEngineConfigs ==
    {<<>>} \cup
    {<<c>> : c \in [BlockSize : {MinBlockSize - 1, MinBlockSize, MaxBlockSize + 1},
                    WindowSize : {7, 8, MinBlockSize + 1},
                    EnableCRC32 : {TRUE}, EnableSHA256 : {TRUE},
                    MaxMemory : {1024 * 1024 - 1, 1024 * 1024}]}

\* the compression types handed to NewGenerator
NewCompressions == {CompressionNone, CompressionGzip, CompressionLZ4}

\* the files handed to GeneratePatch
NewFiles == SeqsUpTo({0, 1}, MaxNewLen)

InitNew ==
    /\ mode = "new"
    /\ tree = IdleTree
    /\ pc = "start"
    /\ src \in NewFiles
    /\ tgt \in NewFiles
    /\ cfg \in [config : NewEngineConfigs, compression : NewCompressions]
    /\ heap = <<>>
    /\ delta = IdleDelta
    /\ clock = 0
    /\ patches = <<>>
    /\ out = IdleOut
    /\ hdr = IdleHdr
    /\ fs = IdleFs
    /\ ap = IdleAp
    /\ optimized = IdleOptimized
    /\ dir = IdleDir

NewFrame == UNCHANGED <<tree, mode, src, tgt, clock, hdr, fs, ap, optimized, dir>>

\* engine, err := diff.NewEngine(config)
CallNewEngine ==
    /\ mode = "new"
    /\ pc = "start"
    /\ \E e \in {NewEngine(cfg.config)} :
           /\ out' = [err |-> e.err, step |-> 0]
           /\ pc' = IF e.err # None THEN "rejected" ELSE "engine"
           /\ cfg' = [engine |-> e.engine, compression |-> cfg.compression]
    /\ UNCHANGED <<delta, heap, patches>>
    /\ NewFrame

\* generator := patch.NewGenerator(engine, compression)
CallNewGenerator ==
    /\ mode = "new"
    /\ pc = "engine"
    /\ cfg' = NewGenerator(cfg.engine[1], cfg.compression)
    /\ pc' = "generator"
    /\ UNCHANGED <<delta, heap, patches, out>>
    /\ NewFrame

\* generator.GeneratePatch(oldFilePath, newFilePath, patchPath)
CallGeneratePatch ==
    /\ mode = "new"
    /\ pc = "generator"
    /\ \E g \in {GeneratePatch(src, tgt, GeneratorConfig(cfg), clock)} :
           /\ delta' = g.delta
           /\ heap' = g.heap
           /\ patches' = Append(patches, g.file)
           /\ out' = [err |-> g.err, step |-> 1]
    /\ pc' = "generated"
    /\ UNCHANGED cfg
    /\ NewFrame

NextNew == CallNewEngine \/ CallNewGenerator \/ CallGeneratePatch

SpecNew == InitNew /\ [][NextNew]_vars

\* the errors that report an invalid or unsupported configuration value
ConfigErrors ==
    {"invalid block size", "invalid window size", "invalid max memory",
     "unsupported compression type"}

\* C20: a configuration error is reported by the constructors only: once the
\* generator is constructed, GeneratePatch never fails with one
C20_ConfigErrorsAtConstruction ==
    (mode = "new" /\ pc = "generated") => out.err \notin ConfigErrors

----------------------------------------------------------------------------
(* One generate run on files of up to two blocks: signature, scan, serialize *)

\* most whole blocks of a file of the generate run
MaxGenBlocks == 2

\* pkg/patch/validator.go; an issue is named by its check
validateHeader(header) ==
    (IF header.Magic # MagicNumber THEN <<"invalid magic">> ELSE <<>>)
    \o (IF header.Version # Version THEN <<"unsupported version">> ELSE <<>>)
    \o (IF header.SourceSize < 0 THEN <<"invalid source size">> ELSE <<>>)
    \o (IF header.TargetSize < 0 THEN <<"invalid target size">> ELSE <<>>)
    \o (IF header.OperationCount = 0 THEN <<"no operations">> ELSE <<>>)

\* the issues validateOperations finds in one operation
validateOperation(op, data) ==
    (IF op.Type > 2 THEN <<"invalid operation type">> ELSE <<>>)
    \o (IF op.Size = 0 THEN <<"operation size is zero">> ELSE <<>>)
    \o (IF op.Type = 1 /\ Uint32Greater(Uint32Add(op.DataOffset, op.Size), Len(data))
        THEN <<"insert data out of range">> ELSE <<>>)
    \o (IF op.Type = 0 THEN <<"invalid source offset">> ELSE <<>>)

RECURSIVE validateOperations(_, _)
validateOperations(operations, data) ==
    IF operations = <<>> THEN <<>>
    ELSE validateOperation(Head(operations), data)
            \o validateOperations(Tail(operations), data)

validateData(data) == IF Len(data) = 0 THEN <<"patch data is empty">> ELSE <<>>

\* ValidatePatchFile once the file was deserialized
validateParsed(des) ==
    IF des.err # None THEN <<"cannot parse patch file">>
    ELSE validateHeader(des.patchFile.Header)
            \o validateOperations(des.patchFile.Operations, des.patchFile.Data)
            \o validateData(des.patchFile.Data)

issuesResult(issues) == [Valid |-> Len(issues) = 0, Issues |-> issues]

ValidatePatchFile(file) ==
    IF ~file.exists THEN issuesResult(<<"patch file does not exist">>)
    ELSE issuesResult(validateParsed(DeserializePatch(file.data)))

InitGen ==
    /\ mode = "gen"
    /\ tree = IdleTree
    /\ pc = "start"
    /\ src \in Files(MaxGenBlocks)
    /\ tgt \in Files(MaxGenBlocks)
    /\ cfg \in Configs
    /\ heap = <<>>
    /\ delta = IdleDelta
    /\ clock = 0
    /\ patches = <<>>
    /\ out = IdleOut
    /\ hdr = IdleHdr
    /\ fs = IdleFs
    /\ ap = IdleAp
    /\ optimized = IdleOptimized
    /\ dir = IdleDir

\* generator.GeneratePatch(oldFilePath, newFilePath, patchPath); the table of
\* the file written is read back into out
GenGeneratePatch ==
    /\ mode = "gen"
    /\ pc = "start"
    /\ \E g \in {GeneratePatch(src, tgt, cfg, clock)} :
           /\ delta' = g.delta
           /\ heap' = g.heap
           /\ patches' = <<g.file>>
           /\ out' = [err |-> g.err, step |-> 1,
                      table |-> DeserializePatch(g.file).patchFile.Operations]
    /\ pc' = "generated"
    /\ UNCHANGED <<tree, mode, src, tgt, cfg, clock, hdr, fs, ap, optimized, dir>>

\* validator.ValidatePatchFile(patchPath) on the file just written
GenValidatePatchFile ==
    /\ mode = "gen"
    /\ pc = "generated"
    /\ \E v \in {ValidatePatchFile(File(patches[1]))} :
           out' = [err |-> out.err, step |-> 2, table |-> out.table,
                   Valid |-> v.Valid, Issues |-> v.Issues]
    /\ pc' = "validated"
    /\ UNCHANGED <<tree, mode, src, tgt, cfg, heap, delta, clock, patches, hdr, fs, ap,
                   optimized, dir>>

NextGen == GenGeneratePatch \/ GenValidatePatchFile

SpecGen == InitGen /\ [][NextGen]_vars

\* two adjacent COPY records that continue one another in the target and in
\* the source
MergeableCopies(table, i) ==
    /\ table[i].Type = OpCopy /\ table[i + 1].Type = OpCopy
    /\ table[i].Offset + table[i].Size = table[i + 1].Offset
    /\ table[i].SrcOffset + table[i].Size = table[i + 1].SrcOffset

\* C21: the operation table of the patch file written is the optimizer's
\* output: no two adjacent COPYs of it are contiguous in source and target
C21_TableIsOptimized ==
    (mode = "gen" /\ pc # "start" /\ out.err = None) =>
        \A i \in 1..(Len(out.table) - 1) : ~MergeableCopies(out.table, i)

----------------------------------------------------------------------------
(* pkg/integrity/recovery.go: CreateBackup and the retention of backups *)

\* the clock of the backups advances at most this many ticks
MaxBackupTicks == 3
\* the backup's name carries the second, a file's modification time the tick
TicksPerSecond == 2

\* the characters of the names, in the order of their codes
Alphabet == <<".", "/", "0", "1", "2", "3", "4", "5", "6", "7", "8", "9",
              "a", "b", "c", "k", "p", "u">>
Ord(c) == CHOOSE i \in DOMAIN Alphabet : Alphabet[i] = c

\* a < b as Go compares strings
RECURSIVE LexLess(_, _)
LexLess(a, b) ==
    IF b = <<>> THEN FALSE
    ELSE IF a = <<>> THEN TRUE
    ELSE IF Head(a) # Head(b) THEN Ord(Head(a)) < Ord(Head(b))
    ELSE LexLess(Tail(a), Tail(b))

BackupSuffix == <<".", "b", "a", "c", "k", "u", "p">>

\* time.Now().Format("20060102_150405"): fixed width, one second per step
FormatTimestamp(tick) == <<Alphabet[(tick \div TicksPerSecond) + 3]>>

\* fmt.Sprintf("%s.%s.backup", fileName, timestamp)
BackupFileName(fileName, tick) ==
    fileName \o <<".">> \o FormatTimestamp(tick) \o BackupSuffix

\* filepath.Match(fileName + ".*.backup", name) for names without
\* metacharacters
GlobMatches(fileName, name) ==
    /\ HasPrefix(name, fileName \o <<".">>)
    /\ HasSuffix(name, BackupSuffix)
    /\ Len(name) >= Len(fileName) + 1 + Len(BackupSuffix)

\* filepath.Glob returns the names of the directory in sorted order
RECURSIVE SortedNames(_)
SortedNames(files) ==
    IF files = {} THEN <<>>
    ELSE LET first == CHOOSE f \in files : \A g \in files \ {f} : LexLess(f.name, g.name)
         IN  <<first>> \o SortedNames(files \ {first})

Swap(b, i, j) == [b EXCEPT ![i] = b[j], ![j] = b[i]]

RECURSIVE SortInner(_, _, _)
SortInner(b, i, j) ==
    IF j > Len(b) THEN b
    ELSE SortInner(IF b[i].modTime > b[j].modTime THEN Swap(b, i, j) ELSE b, i, j + 1)

\* the exchange sort of cleanupOldBackups, by modification time
RECURSIVE SortByModTime(_, _)
SortByModTime(b, i) ==
    IF i >= Len(b) THEN b ELSE SortByModTime(SortInner(b, i, i + 1), i + 1)

\* the files the sorted list loses: its first toDelete elements
removeOldest(files, sorted, toDelete) ==
    files \ {sorted[i] : i \in 1..toDelete}

\* the backup directory after cleanupOldBackups(fileName)
matchesCleaned(files, matches, maxBackups) ==
    IF Len(matches) <= maxBackups THEN files
    ELSE removeOldest(files, SortByModTime(matches, 1), Len(matches) - maxBackups)

cleanupOldBackups(files, fileName, maxBackups) ==
    matchesCleaned(files, SortedNames({f \in files : GlobMatches(fileName, f.name)}),
                   maxBackups)

\* os.Create(dst) and the copy into it: the file of that name is replaced
copyFile(files, name, tick) ==
    {f \in files : f.name # name} \cup {[name |-> name, modTime |-> tick]}

\* CreateBackup(filePath); readable: the source file can be opened
CreateBackup(files, filePath, readable, tick, maxBackups) ==
    IF ~readable THEN [err |-> "create backup failed", files |-> files, path |-> <<>>]
    ELSE [err |-> None,
          files |-> cleanupOldBackups(copyFile(files, BackupFileName(Base(filePath), tick),
                                               tick),
                                      Base(filePath), maxBackups),
          path |-> BackupFileName(Base(filePath), tick)]

\* the files backed up, and the values of RecoveryConfig.MaxBackups
BackupPaths == {<<"a">>, <<"c", "/", "a">>, <<"a", ".", "b">>}
BackupLimits == {1, 2}

InitBackup ==
    /\ mode = "backup"
    /\ \E n \in BackupLimits : tree = [maxBackups |-> n, files |-> {}]
    /\ pc = "start"
    /\ src = <<>>
    /\ tgt = <<>>
    /\ cfg = IdleCfg
    /\ heap = <<>>
    /\ delta = IdleDelta
    /\ clock = 0
    /\ patches = <<>>
    /\ out = IdleOut
    /\ hdr = IdleHdr
    /\ fs = IdleFs
    /\ ap = IdleAp
    /\ optimized = IdleOptimized
    /\ dir = IdleDir

BackupFrame == UNCHANGED <<mode, src, tgt, cfg, heap, delta, patches, hdr, fs, ap, optimized, dir>>

\* time passes
BackupTick ==
    /\ mode = "backup"
    /\ clock < MaxBackupTicks
    /\ clock' = clock + 1
    /\ UNCHANGED <<tree, pc, out>>
    /\ BackupFrame

\* rm.CreateBackup(filePath)
CallCreateBackup ==
    /\ mode = "backup"
    /\ \E filePath \in BackupPaths, readable \in BOOLEAN :
         \E r \in {CreateBackup(tree.files, filePath, readable, clock, tree.maxBackups)} :
           /\ tree' = [tree EXCEPT !.files = r.files]
           /\ out' = [err |-> r.err, step |-> 1, fileName |-> Base(filePath),
                      path |-> r.path, before |-> tree.files, tick |-> clock]
    /\ pc' = "backed"
    /\ UNCHANGED clock
    /\ BackupFrame

NextBackup == BackupTick \/ CallCreateBackup

SpecBackup == InitBackup /\ [][NextBackup]_vars

\* the basename a backup was made of: its name without ".<timestamp>.backup"
BackedUpName(f) ==
    SubSeq(f.name, 1, Len(f.name) - Len(BackupSuffix) - Len(FormatTimestamp(0)) - 1)

BackupsOf(files, fileName) == {f \in files : BackedUpName(f) = fileName}

\* the backups of the basename that would be kept: the ones with fewer than
\* maxBackups newer backups of that basename
Newest(files, fileName, maxBackups) ==
    {f \in BackupsOf(files, fileName) :
        Cardinality({g \in BackupsOf(files, fileName) : g.modTime > f.modTime}) < maxBackups}

\* the directory as the copy of CreateBackup left it, before the cleanup
Copied == copyFile(out.before, out.path, out.tick)

\* C22: after a successful backup the directory holds at most maxBackups
\* backups of the basename, they are the newest ones, and every file the call
\* deleted is a backup of that basename
C22_Retention ==
    (mode = "backup" /\ pc = "backed" /\ out.err = None) =>
        /\ Cardinality(BackupsOf(tree.files, out.fileName)) <= tree.maxBackups
        /\ BackupsOf(tree.files, out.fileName)
              \subseteq Newest(Copied, out.fileName, tree.maxBackups)
        /\ \A f \in Copied \ tree.files : BackedUpName(f) = out.fileName

----------------------------------------------------------------------------
(* pkg/hash: RollingHash, one byte added at a time *)

\* longest window of a rolling hash
MaxWindow == 2
\* most bytes added to a rolling hash
MaxAdds == 4

\* (a * b) % RollingHashMod for a < RollingHashMod, without leaving 31 bits
RECURSIVE MulMod(_, _)
MulMod(a, b) ==
    IF b = 0 THEN 0
    ELSE (((2 * MulMod(a, b \div 2)) % RollingHashMod) + (b % 2) * a) % RollingHashMod

\* base^n mod mod, as the loop of NewRollingHash computes it
RECURSIVE BasePow(_)
BasePow(n) == IF n <= 0 THEN 1 ELSE MulBaseMod(BasePow(n - 1))

NewRollingHash(windowSize) ==
    [hash |-> 0, window |-> <<>>, windowSize |-> windowSize,
     basePow |-> BasePow(windowSize - 1)]

\* the hash without the oldest byte of the full window
RemoveOldest_Kept(hash, oldByte, basePow) == hash

RemoveOldest(hash, oldByte, basePow) ==
    (hash + RollingHashMod - MulMod(basePow, oldByte)) % RollingHashMod

\* rh.Add(b)
Add(rh, b) ==
    IF Len(rh.window) < rh.windowSize
    THEN [rh EXCEPT !.window = Append(@, b),
                    !.hash = (MulBaseMod(@) + b) % RollingHashMod]
    ELSE [rh EXCEPT !.window = Append(Tail(@), b),
                    !.hash = (MulBaseMod(RemoveOldest(@, rh.window[1], rh.basePow)) + b)
                                 % RollingHashMod]

\* the bytes added to a rolling hash
RollBytes == {0, 1, 255}

InitRoll ==
    /\ mode = "roll"
    /\ \E w \in 1..MaxWindow : tree = NewRollingHash(w)
    /\ pc = "start"
    /\ src = <<>>
    /\ tgt = <<>>
    /\ cfg = IdleCfg
    /\ heap = <<>>
    /\ delta = IdleDelta
    /\ clock = 0
    /\ patches = <<>>
    /\ out = IdleOut
    /\ hdr = IdleHdr
    /\ fs = IdleFs
    /\ ap = IdleAp
    /\ optimized = IdleOptimized
    /\ dir = IdleDir

\* rh.Add(b); src collects the bytes added so far
CallAdd ==
    /\ mode = "roll"
    /\ Len(src) < MaxAdds
    /\ \E b \in RollBytes :
           /\ tree' = Add(tree, b)
           /\ src' = Append(src, b)
    /\ pc' = "added"
    /\ UNCHANGED <<mode, tgt, cfg, heap, delta, clock, patches, out, hdr, fs, ap,
                   optimized, dir>>

NextRoll == CallAdd

SpecRoll == InitRoll /\ [][NextRoll]_vars

\* the last min(n, W) of the n bytes added
CurrentWindow == Slice(src, Max(1, Len(src) - tree.windowSize + 1), Len(src))

\* C23: after any sequence of Add calls Hash() is FastHash of the current
\* window, the last min(n, W) bytes added
C23_RollingIsFastHash ==
    mode = "roll" =>
        /\ tree.window = CurrentWindow
        /\ tree.hash = FastHash(CurrentWindow)

C23_Witness ==
    /\ mode = "roll"
    /\ Len(src) > tree.windowSize + 1
    /\ src[1] # 0
    /\ tree.hash = FastHash(CurrentWindow)
    /\ tree.hash # FastHash(src)

----------------------------------------------------------------------------
(* applyInsertOperation on the INSERT records a patch file can hold *)

\* longest literal blob of the INSERT applied
MaxBlobLen == 2

\* values of the uint32 fields data_offset and length, as the table holds them
InsertFieldBytes == {<<0, 0, 0, 0>>, <<1, 0, 0, 0>>, <<2, 0, 0, 0>>,
                     <<254, 255, 255, 255>>, <<255, 255, 255, 255>>}

InitInsert ==
    /\ mode = "insert"
    /\ pc = "start"
    /\ \E size \in InsertFieldBytes, dataOffset \in InsertFieldBytes,
          blob \in SeqsUpTo({7, 9}, MaxBlobLen) :
          tree = [op |-> UnmarshalOp(<<1, 0>> \o size \o PutUint64(0) \o PutUint64(0)
                                         \o dataOffset),
                  patchData |-> blob]
    /\ src = <<>>
    /\ tgt = <<>>
    /\ cfg = IdleCfg
    /\ heap = <<>>
    /\ delta = IdleDelta
    /\ clock = 0
    /\ patches = <<>>
    /\ out = IdleOut
    /\ hdr = IdleHdr
    /\ fs = IdleFs
    /\ ap = IdleAp
    /\ optimized = IdleOptimized
    /\ dir = IdleDir

\* a.applyInsertOperation(targetFile, op, patchData, result) on an empty
\* target file
CallApplyInsert ==
    /\ mode = "insert"
    /\ pc = "start"
    /\ \E r \in {applyInsertOperation(<<>>, tree.op, tree.patchData)} :
           out' = [err |-> r.err, step |-> 1, data |-> r.data]
    /\ pc' = "inserted"
    /\ UNCHANGED <<tree, mode, src, tgt, cfg, heap, delta, clock, patches, hdr, fs, ap,
                   optimized, dir>>

NextInsert == CallApplyInsert

SpecInsert == InitInsert /\ [][NextInsert]_vars

\* the record's range lies in the blob: neither field is 2^31 or more and
\* their sum does not pass the blob's end
RangeInBlob ==
    /\ tree.op.DataOffset >= 0 /\ tree.op.DataOffset <= Len(tree.patchData)
    /\ tree.op.Size >= 0 /\ tree.op.Size <= Len(tree.patchData) - tree.op.DataOffset

\* C26: applying an INSERT returns the out-of-bounds error or writes the blob
\* bytes [data_offset, data_offset + length); it indexes nothing else
C26_InsertBounds ==
    (mode = "insert" /\ pc = "inserted") =>
        \/ out.err = "insert data out of bounds"
        \/ /\ out.err = None
           /\ RangeInBlob
           /\ out.data = Slice(tree.patchData, tree.op.DataOffset + 1,
                               tree.op.DataOffset + tree.op.Size)

----------------------------------------------------------------------------
(* applyCopyOperation on a source file that may end before the range does *)

\* longest source file of the COPY applied
MaxCopySource == 3

InitCopy ==
    /\ mode = "copy"
    /\ pc = "start"
    /\ src \in SeqsUpTo({3, 5}, MaxCopySource)
    /\ \E size \in 0..MaxCopySource, srcOffset \in 0..(MaxCopySource + 1), offset \in 0..1 :
          tree = [op |-> [Type |-> 0, Reserved |-> 0, Size |-> size, Offset |-> offset,
                          SrcOffset |-> srcOffset, DataOffset |-> 0]]
    /\ tgt = <<>>
    /\ cfg = IdleCfg
    /\ heap = <<>>
    /\ delta = IdleDelta
    /\ clock = 0
    /\ patches = <<>>
    /\ out = IdleOut
    /\ hdr = IdleHdr
    /\ fs = IdleFs
    /\ ap = IdleAp
    /\ optimized = IdleOptimized
    /\ dir = IdleDir

\* targetFile.Seek(op.Offset, 0); a.applyCopyOperation(sourceFile, targetFile,
\* op, result) on an empty target file
CallApplyCopy ==
    /\ mode = "copy"
    /\ pc = "start"
    /\ \E r \in {applyCopyOperation(src, <<>>, tree.op)} :
           out' = [err |-> r.err, step |-> 1, data |-> r.data]
    /\ pc' = "copied"
    /\ UNCHANGED <<tree, mode, src, tgt, cfg, heap, delta, clock, patches, hdr, fs, ap,
                   optimized, dir>>

NextCopy == CallApplyCopy

SpecCopy == InitCopy /\ [][NextCopy]_vars

\* C27: a COPY that reports success has written Size bytes, the source bytes
\* [SrcOffset, SrcOffset + Size), at its target offset
C27_CopyAllOrError ==
    (mode = "copy" /\ pc = "copied" /\ out.err = None) =>
        /\ tree.op.SrcOffset + tree.op.Size <= Len(src)
        /\ out.data = WriteAt(<<>>, tree.op.Offset,
                              SubSeq(src, tree.op.SrcOffset + 1,
                                     tree.op.SrcOffset + tree.op.Size))

----------------------------------------------------------------------------
(* pkg/integrity/enhanced_applier.go ConcurrentVerifier: one caller running *)
(* Start, SubmitJob n times, Stop, GetResults, and the worker goroutines.   *)
(* A job and its result are named by the job's ID.                          *)

\* most worker goroutines of a verifier
MaxVerifierWorkers == 2
\* most jobs the caller submits
MaxJobs == 5

\* workerCount <= 0 stands for the default of 4 workers, left out here
NewConcurrentVerifier(workerCount, jobs) ==
    [workerCount |-> workerCount, jobs |-> jobs, submitted |-> 0,
     jobQueue |-> <<>>, jobQueueClosed |-> FALSE,
     resultQueue |-> <<>>, resultQueueClosed |-> FALSE,
     wg |-> 0,
     workers |-> [i \in 1..workerCount |-> [pc |-> "idle", job |-> 0]],
     results |-> <<>>]

\* capacity of jobQueue and of resultQueue
QueueCap(cv) == cv.workerCount * 2

InitVerifier ==
    /\ mode = "verify"
    /\ pc = "start"
    /\ \E w \in 1..MaxVerifierWorkers, n \in 0..MaxJobs : tree = NewConcurrentVerifier(w, n)
    /\ src = <<>>
    /\ tgt = <<>>
    /\ cfg = IdleCfg
    /\ heap = <<>>
    /\ delta = IdleDelta
    /\ clock = 0
    /\ patches = <<>>
    /\ out = IdleOut
    /\ hdr = IdleHdr
    /\ fs = IdleFs
    /\ ap = IdleAp
    /\ optimized = IdleOptimized
    /\ dir = IdleDir

VerifierFrame ==
    UNCHANGED <<mode, src, tgt, cfg, heap, delta, clock, patches, out, hdr, fs, ap,
                optimized, dir>>

\* cv.Start(): wg.Add(1) and go cv.worker(i) for every worker
VerifierStart ==
    /\ mode = "verify"
    /\ pc = "start"
    /\ tree' = [tree EXCEPT !.wg = @ + tree.workerCount,
                            !.workers = [i \in 1..tree.workerCount |->
                                            [pc |-> "range", job |-> 0]]]
    /\ pc' = "submit"
    /\ VerifierFrame

\* cv.SubmitJob(offset, data, id): cv.jobQueue <- job
VerifierSubmitJob ==
    /\ mode = "verify"
    /\ pc = "submit"
    /\ tree.submitted < tree.jobs
    /\ Len(tree.jobQueue) < QueueCap(tree)
    /\ tree' = [tree EXCEPT !.jobQueue = Append(@, tree.submitted + 1),
                            !.submitted = @ + 1]
    /\ UNCHANGED pc
    /\ VerifierFrame

\* cv.Stop(): close(cv.jobQueue)
VerifierStopClose ==
    /\ mode = "verify"
    /\ pc = "submit"
    /\ tree.submitted = tree.jobs
    /\ tree' = [tree EXCEPT !.jobQueueClosed = TRUE]
    /\ pc' = "wait"
    /\ VerifierFrame

\* cv.Stop(): cv.wg.Wait(); close(cv.resultQueue)
VerifierStopWait ==
    /\ mode = "verify"
    /\ pc = "wait"
    /\ tree.wg = 0
    /\ tree' = [tree EXCEPT !.resultQueueClosed = TRUE]
    /\ pc' = "results"
    /\ VerifierFrame

\* cv.GetResults(): for result := range cv.resultQueue
VerifierGetResults ==
    /\ mode = "verify"
    /\ pc = "results"
    /\ \/ /\ tree.resultQueue # <<>>
          /\ tree' = [tree EXCEPT !.results = Append(@, Head(tree.resultQueue)),
                                  !.resultQueue = Tail(@)]
          /\ UNCHANGED pc
       \/ /\ tree.resultQueue = <<>> /\ tree.resultQueueClosed
          /\ pc' = "returned"
          /\ UNCHANGED tree
    /\ VerifierFrame

\* worker: for job := range cv.jobQueue, and the deferred cv.wg.Done()
VerifierWorkerRange(i) ==
    /\ mode = "verify"
    /\ tree.workers[i].pc = "range"
    /\ \/ /\ tree.jobQueue # <<>>
          /\ tree' = [tree EXCEPT !.workers[i] = [pc |-> "send", job |-> Head(tree.jobQueue)],
                                  !.jobQueue = Tail(@)]
       \/ /\ tree.jobQueue = <<>> /\ tree.jobQueueClosed
          /\ tree' = [tree EXCEPT !.workers[i].pc = "exit", !.wg = @ - 1]
    /\ UNCHANGED pc
    /\ VerifierFrame

\* worker: cv.resultQueue <- result
VerifierWorkerSend(i) ==
    /\ mode = "verify"
    /\ tree.workers[i].pc = "send"
    /\ Len(tree.resultQueue) < QueueCap(tree)
    /\ tree' = [tree EXCEPT !.resultQueue = Append(@, tree.workers[i].job),
                            !.workers[i].pc = "range"]
    /\ UNCHANGED pc
    /\ VerifierFrame

VerifierWorker ==
    \E i \in 1..MaxVerifierWorkers :
        /\ i \in DOMAIN tree.workers
        /\ VerifierWorkerRange(i) \/ VerifierWorkerSend(i)

NextVerifier ==
    \/ VerifierStart \/ VerifierSubmitJob \/ VerifierStopClose \/ VerifierStopWait
    \/ VerifierGetResults
    \/ VerifierWorker

SpecVerifier == InitVerifier /\ [][NextVerifier]_vars

\* the Go scheduler runs a goroutine that can take a step
SpecVerifierFair == SpecVerifier /\ WF_vars(NextVerifier)

\* C28: Start, n x SubmitJob, Stop, GetResults run by one caller comes to an
\* end, and GetResults returns n results
C28_VerifierTerminates ==
    (mode = "verify") ~> (pc = "returned" /\ Len(tree.results) = tree.jobs)

----------------------------------------------------------------------------
(* pkg/performance/concurrent.go ConcurrentProcessor: a goroutine calling   *)
(* Submit, a goroutine calling Stop, and one worker.  A select is one step  *)
(* that takes any of its ready cases; a send on a closed channel is ready   *)
(* and panics.  The results are drained by collectResults and not kept.     *)

\* most Submit calls
MaxSubmits == 3
\* largest QueueSize of the configurations explored
MaxQueueSize == 2

NewConcurrentProcessor(queueSize) ==
    [queueSize |-> queueSize, jobQueue |-> <<>>, jobQueueClosed |-> FALSE,
     cancelled |-> FALSE, wg |-> 0, workerPc |-> "idle", stopPc |-> "idle",
     submitted |-> 0, processed |-> 0, panicked |-> FALSE]

\* what the select of Submit can do in the processor's state
SubmitOutcomes(cp) ==
    LET send == IF cp.jobQueueClosed THEN {"panic: send on closed channel"}
                ELSE IF Len(cp.jobQueue) < cp.queueSize THEN {None}
                ELSE {}
        done == IF cp.cancelled THEN {"context canceled"} ELSE {}
    IN  IF send \cup done = {} THEN {"job queue full"} ELSE send \cup done

\* cp.Submit(job) taking the case that gives err
Submit(cp, err) ==
    IF err = None
    THEN [cp EXCEPT !.jobQueue = Append(@, cp.submitted + 1), !.submitted = @ + 1]
    ELSE IF err = "panic: send on closed channel"
    THEN [cp EXCEPT !.panicked = TRUE]
    ELSE cp

InitProcessor ==
    /\ mode = "proc"
    /\ pc = "start"
    /\ \E q \in 1..MaxQueueSize : tree = NewConcurrentProcessor(q)
    /\ src = <<>>
    /\ tgt = <<>>
    /\ cfg = IdleCfg
    /\ heap = <<>>
    /\ delta = IdleDelta
    /\ clock = 0
    /\ patches = <<>>
    /\ out = IdleOut
    /\ hdr = IdleHdr
    /\ fs = IdleFs
    /\ ap = IdleAp
    /\ optimized = IdleOptimized
    /\ dir = IdleDir

ProcessorFrame ==
    UNCHANGED <<mode, src, tgt, cfg, heap, delta, clock, patches, hdr, fs, ap,
                optimized, dir>>

\* cp.Start(): wg.Add(1); go worker.run(); go cp.collectResults()
ProcessorStart ==
    /\ mode = "proc"
    /\ pc = "start"
    /\ tree' = [tree EXCEPT !.wg = @ + 1, !.workerPc = "select"]
    /\ pc' = "started"
    /\ UNCHANGED out
    /\ ProcessorFrame

\* cp.Submit(job); out.step counts the calls
ProcessorSubmit ==
    /\ mode = "proc"
    /\ pc = "started"
    /\ ~tree.panicked
    /\ out.step < MaxSubmits
    /\ \E err \in SubmitOutcomes(tree) :
           /\ tree' = Submit(tree, err)
           /\ out' = [err |-> err, step |-> out.step + 1]
    /\ UNCHANGED pc
    /\ ProcessorFrame

\* cp.Stop(): cp.cancel()
ProcessorStopCancel ==
    /\ mode = "proc"
    /\ pc = "started"
    /\ ~tree.panicked
    /\ tree.stopPc = "idle"
    /\ tree' = [tree EXCEPT !.cancelled = TRUE, !.stopPc = "close"]
    /\ UNCHANGED <<pc, out>>
    /\ ProcessorFrame

\* cp.Stop(): close(cp.jobQueue)
ProcessorStopClose ==
    /\ mode = "proc"
    /\ ~tree.panicked
    /\ tree.stopPc = "close"
    /\ tree' = [tree EXCEPT !.jobQueueClosed = TRUE, !.stopPc = "wait"]
    /\ UNCHANGED <<pc, out>>
    /\ ProcessorFrame

\* cp.Stop(): cp.wg.Wait(); close(cp.resultQueue)
ProcessorStopWait ==
    /\ mode = "proc"
    /\ ~tree.panicked
    /\ tree.stopPc = "wait"
    /\ tree.wg = 0
    /\ tree' = [tree EXCEPT !.stopPc = "stopped"]
    /\ UNCHANGED <<pc, out>>
    /\ ProcessorFrame

\* Worker.run: the select on jobQueue and ctx.Done(), and processJob for the
\* job received
WorkerRun ==
    /\ mode = "proc"
    /\ ~tree.panicked
    /\ tree.workerPc = "select"
    /\ \/ /\ tree.jobQueue # <<>>
          /\ tree' = [tree EXCEPT !.jobQueue = Tail(@), !.processed = @ + 1]
       \/ /\ tree.jobQueue = <<>> /\ tree.jobQueueClosed
          /\ tree' = [tree EXCEPT !.workerPc = "exit", !.wg = @ - 1]
       \/ /\ tree.cancelled
          /\ tree' = [tree EXCEPT !.workerPc = "exit", !.wg = @ - 1]
    /\ UNCHANGED <<pc, out>>
    /\ ProcessorFrame

NextProcessor ==
    \/ ProcessorStart \/ ProcessorSubmit
    \/ ProcessorStopCancel \/ ProcessorStopClose \/ ProcessorStopWait
    \/ WorkerRun

SpecProcessor == InitProcessor /\ [][NextProcessor]_vars

\* C29: a Submit called while Stop runs or after it never panics: it has
\* enqueued the job or returned an error
C29_SubmitNeverPanics ==
    mode = "proc" => (~tree.panicked /\ out.err # "panic: send on closed channel")

\* C30: ValidatePatchFile finds the patch file the generator wrote for a
\* non-empty target valid
C30_GeneratedPatchIsValid ==
    (mode = "gen" /\ pc = "validated" /\ tgt # <<>>) => out.Valid

====
